---- MODULE Spec2Model ----
(***************************************************************************)
(* bcwallet: a command-line BIP32 HD wallet that asks a remote service     *)
(* (BlockCypher) for address lists and unsigned transactions and signs    *)
(* locally.  The model follows src/bcwallet/bcwallet.py: the home menu,    *)
(* basic send, sweep from a WIF key, listing of new receiving addresses    *)
(* and the online address dump.  The remote service is untrusted: every    *)
(* answer it gives is drawn from a bounded set of well-formed and          *)
(* ill-formed answers.                                                     *)
(***************************************************************************)
EXTENDS Integers, Sequences, FiniteSets, TLC

VARIABLES
    pc,              \* position of the program (menu, inside a flow, quit, crashed)
    wallet,          \* the master key string the program was started with
    mkey,            \* id of the master key the session was opened with
    has_priv,        \* wallet_obj.private_key is set
    USER_ONLINE,     \* session global
    VERBOSE_MODE,    \* session global
    BLOCKCYPHER_API_KEY,  \* session global: id of the API key ('' is 0)
    flow,            \* the menu action that runs or ran last
    final_balance,   \* wallet_details['final_balance'] (send_funds)
    destination_address,  \* send_funds: user's destination; sweep: dest_addr
    dest_satoshis,   \* send_funds: requested amount; sweep: -1
    wif_key,         \* sweep: id of the user's WIF key (0: none)
    change_address,  \* send_funds: change address (0: none)
    derive_req,      \* last derive_hd_address request
    claimed,         \* records the resolver was last called on
    resolver_key,    \* master key the resolver was last called with
    resolved,        \* what the resolver returned
    unsigned_tx,     \* answer of create_unsigned_tx
    verify_res,      \* (tx_is_correct, err_msg)
    hexkeypair_dict, \* set of key-pair records found by the key finder
    privkeyhex_list,
    pubkeyhex_list,
    tx_signatures,
    notfound_addrs,  \* send_funds: the addresses named by Traversal Fail
    calls,           \* what the running flow has called so far, in order
    signed_tx,       \* the proposal whose tosign list went to the signer
    broadcast,       \* arguments of broadcast_signed_transaction
    displayed,       \* addresses shown to the user by the running flow
    reported         \* last error text shown to the user

vars == <<pc, wallet, mkey, has_priv, USER_ONLINE, VERBOSE_MODE,
          BLOCKCYPHER_API_KEY, flow, final_balance,
          destination_address, dest_satoshis, wif_key, change_address,
          derive_req, claimed, resolver_key, resolved, unsigned_tx,
          verify_res, hexkeypair_dict, privkeyhex_list, pubkeyhex_list,
          tx_signatures, notfound_addrs, calls, signed_tx, broadcast, displayed,
          reported>>

----------------------------------------------------------------------------
(* Bounds of the model                                                     *)

MaxValue == 2        \* satoshi values of inputs and outputs: 1..MaxValue
MaxNumAddrs == 2     \* addresses asked for at once by the listing

(* Program constants                                                       *)
starting_pos == 0
depth == 100

----------------------------------------------------------------------------
(* Keys and addresses.  BIP32 derivation and address encoding are modelled *)
(* as an injective numbering of (master key, chain, index).                *)

Seq2(S) == {<<>>} \cup {<<a>> : a \in S} \cup {<<a, b>> : a \in S, b \in S}

RECURSIVE SumValues(_)
SumValues(s) == IF s = <<>> THEN 0 ELSE s[1].value + SumValues(Tail(s))

AddrOf(k, chain, index) == k * 1000 + chain * 500 + index + 1

IsWalletAddr(k, a) == a > k * 1000 /\ a <= k * 1000 + 1000

\* foreign addresses: not derived from any master key of the model
ForeignAddrs == {1, 2}

\* the address of a WIF private key
WifAddr(w) == 10 + w

WifKeys == {1}

NoKey == [kind |-> "none", k |-> 0, chain |-> 0, index |-> 0]
PrivKey(k, chain, index) == [kind |-> "priv", k |-> k, chain |-> chain, index |-> index]
PubKey(k, chain, index) == [kind |-> "pub", k |-> k, chain |-> chain, index |-> index]
Wif(k, chain, index) == [kind |-> "wif", k |-> k, chain |-> chain, index |-> index]

\* a master key as handed to the library: its id and whether it is private
MasterKey(k, private) == [k |-> k, private |-> private]

serialize_b58(k, private) == MasterKey(k, private)

get_blockcypher_walletname_from_mpub(mpub) == 7000 + mpub.k

----------------------------------------------------------------------------
(* Resolver (bc_utils.verify_and_fill_address_paths_from_bip32key)         *)

\* a record as claimed by the service: an address and its path m/chain/index
Claimed(a, chain, index) == [address |-> a, path |-> <<chain, index>>]

Recomputed(master_key, path) == AddrOf(master_key.k, path[1], path[2])

FillRecord(rec, master_key) ==
    [pub_address |-> rec.address,
     path        |-> rec.path,
     pubkeyhex   |-> PubKey(master_key.k, rec.path[1], rec.path[2]),
     privkeyhex  |-> IF master_key.private
                     THEN PrivKey(master_key.k, rec.path[1], rec.path[2])
                     ELSE NoKey,
     wif         |-> IF master_key.private
                     THEN Wif(master_key.k, rec.path[1], rec.path[2])
                     ELSE NoKey]

ResolverFailure == [ok |-> FALSE, records |-> <<>>]

verify_and_fill_address_paths_from_bip32key(address_paths, master_key) ==
    IF \E i \in 1..Len(address_paths) :
           address_paths[i].address # Recomputed(master_key, address_paths[i].path)
    THEN ResolverFailure
    ELSE [ok      |-> TRUE,
          records |-> [i \in 1..Len(address_paths) |->
                          FillRecord(address_paths[i], master_key)]]

----------------------------------------------------------------------------
(* Key Finder (bc_utils.find_hexkeypairs_from_bip32key_bc) and             *)
(* hexkeypair_list_to_dict                                                 *)

SeqToSet(s) == {s[i] : i \in 1..Len(s)}

find_hexkeypairs_from_bip32key_bc(pub_address_list, master_key, start, d) ==
    {[pub_address |-> AddrOf(master_key.k, chain, index),
      privkeyhex  |-> PrivKey(master_key.k, chain, index),
      pubkeyhex   |-> PubKey(master_key.k, chain, index)] :
        <<chain, index>> \in
            {p \in (0..1) \X (start..(start + d - 1)) :
                AddrOf(master_key.k, p[1], p[2]) \in SeqToSet(pub_address_list)}}

hexkeypair_list_to_dict(hexkeypair_list) ==
    [a \in {h.pub_address : h \in hexkeypair_list} |->
        LET h == CHOOSE x \in hexkeypair_list : x.pub_address = a
        IN  [privkeyhex |-> h.privkeyhex, pubkeyhex |-> h.pubkeyhex]]

----------------------------------------------------------------------------
(* Unsigned transaction proposals and the Transaction Verifier             *)
(* (blockcypher.verify_unsigned_tx, blockcypher.get_input_addresses)       *)

Output(a, v) == [address |-> a, value |-> v]

NoTx == [errors |-> FALSE, inputs |-> <<>>, outputs |-> <<>>, fees |-> 0,
         tosign |-> <<>>]

\* the funding source asked for: a wallet (by name) or an address
FromWallet(wallet_name) == [wallet_name |-> wallet_name, address |-> 0]
FromAddress(a) == [wallet_name |-> 0, address |-> a]

get_input_addresses(tx) == [i \in 1..Len(tx.inputs) |-> tx.inputs[i].address]

InputSatisfiable(a, source) ==
    IF source.address # 0
    THEN a = source.address
    ELSE \E k \in {1, 2} :
            /\ get_blockcypher_walletname_from_mpub(MasterKey(k, FALSE)) = source.wallet_name
            /\ IsWalletAddr(k, a)

IndexOf(s, r) ==
    IF \E i \in 1..Len(s) : s[i] = r
    THEN CHOOSE i \in 1..Len(s) : s[i] = r /\ \A j \in 1..(i - 1) : s[j] # r
    ELSE 0

RemoveAt(s, i) == SubSeq(s, 1, i - 1) \o SubSeq(s, i + 1, Len(s))

Accepted == [ok |-> TRUE, err_msg |-> ""]
Rejected(reason) == [ok |-> FALSE, err_msg |-> reason]

\* checks 2 and 3 of a normal send: the requested output is among the
\* outputs, and what is left over goes to the change address
VerifySendOutputs(tx, requested, change) ==
    LET at       == IndexOf(tx.outputs, requested)
        rest     == RemoveAt(tx.outputs, at)
        leftover == SumValues(tx.inputs) - requested.value - tx.fees
    IN  IF at = 0 \/ Len(tx.outputs) > 2 THEN Rejected("OutputMismatch")
        ELSE IF rest = <<>>
             THEN IF leftover = 0 THEN Accepted ELSE Rejected("ChangeMismatch")
        ELSE IF rest[1] = Output(change, leftover) /\ leftover > 0
             THEN Accepted
             ELSE Rejected("ChangeMismatch")

\* check 2 of a sweep: exactly the destination, no change output
VerifySweepOutputs(tx, requested) ==
    IF Len(tx.outputs) = 1 /\ tx.outputs[1].address = requested.address
    THEN Accepted
    ELSE Rejected("OutputMismatch")

verify_unsigned_tx(tx, inputs, outputs, sweep_funds, change) ==
    IF ~(change # 0 \/ sweep_funds) THEN Rejected("MalformedProposal")
    ELSE IF tx.tosign = <<>> \/ tx.inputs = <<>>
            \/ (\E i \in 1..Len(tx.inputs) : tx.inputs[i].value < 0)
            \/ (\E j \in 1..Len(tx.outputs) : tx.outputs[j].value < 0)
         THEN Rejected("MalformedProposal")
    ELSE IF \E i \in 1..Len(tx.inputs) :
                ~InputSatisfiable(tx.inputs[i].address, inputs[1])
         THEN Rejected("UnexpectedInput")
    ELSE IF sweep_funds THEN VerifySweepOutputs(tx, outputs[1])
    ELSE VerifySendOutputs(tx, outputs[1], change)

----------------------------------------------------------------------------
(* Signer (blockcypher.make_tx_signatures)                                 *)

Signature(hash, privkey) == [hash |-> hash, key |-> privkey]

ArityMismatch == <<[hash |-> -1, key |-> NoKey]>>

\* mutant: lists of different lengths are signed as far as the shortest goes
make_tx_signatures_Truncating(txs_to_sign, privkey_list, pubkey_list) ==
    LET n == IF Len(txs_to_sign) < Len(privkey_list) THEN Len(txs_to_sign)
                                                     ELSE Len(privkey_list)
    IN  [i \in 1..n |-> Signature(txs_to_sign[i], privkey_list[i])]

make_tx_signatures(txs_to_sign, privkey_list, pubkey_list) ==
    IF Len(txs_to_sign) = Len(privkey_list) /\ Len(privkey_list) = Len(pubkey_list)
    THEN [i \in 1..Len(txs_to_sign) |-> Signature(txs_to_sign[i], privkey_list[i])]
    ELSE ArityMismatch

----------------------------------------------------------------------------
(* Answers of the untrusted remote service                                 *)

MasterKeys == {1, 2}

Values == 1..MaxValue

Fees == (-1)..MaxValue

Balances == {0, MaxValue}

\* destinations the user may type; the other foreign address is a stranger's
DestAddrs == {1}

Stranger == 2

OtherKey(k) == 3 - k

\* records the service may claim for wallet k at a path m/chain/0: the true
\* address of that path, the address of the other chain, the address another
\* master key has, or a stranger's address
ClaimedRecs(k) ==
    {Claimed(a, chain, 0) :
        chain \in 0..1,
        a \in {AddrOf(k, 0, 0), AddrOf(k, 1, 0), AddrOf(OtherKey(k), 0, 0), Stranger}}

RECURSIVE SeqUpTo(_, _)
SeqUpTo(S, n) ==
    IF n = 0 THEN {<<>>}
    ELSE LET shorter == SeqUpTo(S, n - 1)
         IN  shorter \cup {Append(l, a) : l \in {x \in shorter : Len(x) = n - 1}, a \in S}

\* answers of derive_hd_address: a list of claimed records
DeriveAnswers(k, num_addrs) == SeqUpTo(ClaimedRecs(k), num_addrs)

\* answers of get_wallet_addresses: chains, each with an index and records
ChainAnswers(k) ==
    {[index |-> c, chain_addresses |-> l] : c \in 0..1, l \in SeqUpTo(ClaimedRecs(k), 1)}

WalletAddressAnswers(k) == SeqUpTo(ChainAnswers(k), 2)

Input(a, v) == [address |-> a, value |-> v]

InAddrs(k) == {AddrOf(k, 0, 0), AddrOf(k, 1, 0), AddrOf(k, 1, starting_pos + depth),
               Stranger}
                  \cup {WifAddr(w) : w \in WifKeys}

InputLists(k) ==
    {<<Input(a, v)>> : a \in InAddrs(k), v \in MaxValue..(MaxValue + 1)}
    \cup {<<Input(a, MaxValue), Input(b, MaxValue)>> :
            a \in {AddrOf(k, 0, 0)} \cup {WifAddr(w) : w \in WifKeys},
            b \in InAddrs(k)}

OutRecs(dest, change) ==
    {Output(a, v) : a \in {dest, Stranger} \cup (IF change = 0 THEN {} ELSE {change}),
                    v \in Values}

OutputLists(dest, change) ==
    Seq2(OutRecs(dest, change))
    \cup {<<Output(dest, v), Output(IF change = 0 THEN dest ELSE change, w),
            Output(Stranger, 1)>> : v \in Values, w \in Values}

Tosign(n) == [i \in 1..n |-> i]

ErrorsTx == [errors |-> TRUE, inputs |-> <<>>, outputs |-> <<>>, fees |-> 0,
             tosign |-> <<>>]

\* answers of create_unsigned_tx with an 'errors' field: without a body, or
\* with the body of a transaction paying the destination
ErrorAnswers(k, dest) ==
    {ErrorsTx}
    \cup {[errors |-> TRUE, inputs |-> <<Input(a, MaxValue)>>,
           outputs |-> <<Output(dest, v)>>, fees |-> 0, tosign |-> Tosign(1)] :
             a \in {AddrOf(k, 0, 0)} \cup {WifAddr(w) : w \in WifKeys},
             v \in Values}

\* answers of create_unsigned_tx
Proposals(k, dest, change) ==
    {[errors |-> FALSE, inputs |-> i, outputs |-> o, fees |-> f,
      tosign |-> Tosign(Len(i) - m)] :
        i \in InputLists(k), o \in OutputLists(dest, change), f \in Fees, m \in 0..1}
    \cup ErrorAnswers(k, dest)

----------------------------------------------------------------------------
(* Helpers of bcwallet.py                                                  *)

mpub == serialize_b58(mkey, FALSE)
mpriv == serialize_b58(mkey, TRUE)

\* a master key string as typed or piped in: the key it stands for (if any)
\* and its form
KeyString(master_key, form) ==
    [k |-> master_key.k, private |-> master_key.private, form |-> form]

\* b58: what serialize_b58 gives; not_canonical: deserializes to the key but
\* is not what serialize_b58 gives; no_prefix: no known network prefix;
\* index_error, parse_error: deserialization fails; empty: no key given
Forms == {"b58", "not_canonical", "no_prefix", "index_error", "parse_error", "empty"}

KeyStrings ==
    {KeyString(MasterKey(k, private), form) :
        k \in MasterKeys, private \in BOOLEAN, form \in Forms}
    \ {KeyString(MasterKey(k, TRUE), "not_canonical") : k \in MasterKeys}

guess_network_from_mkey(mkey_string) ==
    IF mkey_string.form = "no_prefix" THEN "none" ELSE "btc"

\* Wallet.deserialize: the wallet object, or the exception raised
Wallet_deserialize(mkey_string) ==
    CASE mkey_string.form = "index_error" -> "IndexError"
      [] mkey_string.form = "parse_error" -> "error"
      [] OTHER -> "wallet_obj"

\* a call the running flow made: its name and, for a call of the remote
\* service, the values handed to it
Call(op, args) == [op |-> op, args |-> args]

\* a call that stays in the process
LocalCall(op) == Call(op, {})

\* an argument that is not a key: its kind and its value
Arg(kind, v) == [kind |-> kind, k |-> v, chain |-> 0, index |-> 0]

\* api_key=BLOCKCYPHER_API_KEY as an argument of a request
api_key == Arg("api_key", BLOCKCYPHER_API_KEY)

\* a serialized master key as an argument
ArgMasterKey(master_key) ==
    Arg(IF master_key.private THEN "mpriv" ELSE "mpub", master_key.k)

\* wallet_home: create_hd_wallet(wallet_name, xpubkey=mpub, api_key)
create_hd_wallet_call(k) ==
    Call("create_hd_wallet",
         {Arg("wallet_name", get_blockcypher_walletname_from_mpub(serialize_b58(k, FALSE))),
          ArgMasterKey(serialize_b58(k, FALSE)), api_key})

get_wallet_transactions_call(k) ==
    Call("get_wallet_transactions",
         {Arg("wallet_name", get_blockcypher_walletname_from_mpub(serialize_b58(k, FALSE))),
          api_key})

get_wallet_addresses_call(k) ==
    Call("get_wallet_addresses",
         {Arg("wallet_name", get_blockcypher_walletname_from_mpub(serialize_b58(k, FALSE))),
          api_key})

derive_hd_address_call(request) ==
    Call("derive_hd_address",
         {api_key, Arg("wallet_name", request.wallet_name),
          Arg("number", request.num_addresses),
          Arg("number", request.subchain_index)})

\* create_unsigned_tx(inputs, outputs, change_address); a send names the
\* wallet and its token, a sweep names the address of the WIF key
create_unsigned_tx_call(request, change) ==
    Call("create_unsigned_tx",
         (IF request.inputs[1].address # 0
          THEN {Arg("address", request.inputs[1].address)}
          ELSE {Arg("wallet_name", request.inputs[1].wallet_name), api_key})
         \cup {Arg("address", request.outputs[1].address),
               Arg("number", request.outputs[1].value)}
         \cup (IF change = 0 THEN {} ELSE {Arg("address", change)}))

\* mutant: the proposal is sent without its change output
broadcast_signed_transaction_request_Altered(tx, signatures, pubkeys) ==
    [unsigned_tx |-> [tx EXCEPT !.outputs = SubSeq(tx.outputs, 1, 1)],
     signatures  |-> signatures,
     pubkeys     |-> pubkeys]

\* send_funds, sweep_funds_from_privkey: what is submitted for broadcast
broadcast_signed_transaction_request(tx, signatures, pubkeys) ==
    [unsigned_tx |-> tx, signatures |-> signatures, pubkeys |-> pubkeys]

\* mutant: the private keys are sent along with the signatures
broadcast_signed_transaction_call_WithPrivkeys(tx, signatures, pubkeys) ==
    Call("broadcast_signed_transaction",
         {Arg("unsigned_tx", Len(tx.inputs))}
         \cup {Arg("signature", signatures[i].hash) : i \in 1..Len(signatures)}
         \cup {signatures[i].key : i \in 1..Len(signatures)}
         \cup {pubkeys[i] : i \in 1..Len(pubkeys)})

\* broadcast_signed_transaction(unsigned_tx, signatures, pubkeys)
broadcast_signed_transaction_call(tx, signatures, pubkeys) ==
    Call("broadcast_signed_transaction",
         {Arg("unsigned_tx", Len(tx.inputs))}
         \cup {Arg("signature", signatures[i].hash) : i \in 1..Len(signatures)}
         \cup {pubkeys[i] : i \in 1..Len(pubkeys)})

\* print_path_info: get_total_balance(address)
get_total_balance_call(address) ==
    Call("get_total_balance", {Arg("address", address)})

\* mutant: the balance of every printed address is looked up, online or not
print_path_info_Unchecked(online, shown) ==
    [i \in 1..Len(shown) |-> get_total_balance_call(shown[i].address)]

\* print_path_info once per printed entry: the remote calls it makes, one
\* balance lookup per address when the session is online and none otherwise
print_path_info(online, shown) ==
    IF online
    THEN [i \in 1..Len(shown) |-> get_total_balance_call(shown[i].address)]
    ELSE <<>>

\* is_connected_to_blockcypher: get_blockchain_overview()
get_blockchain_overview_call == Call("get_blockchain_overview", {})

\* the request register_unused_addresses sends to derive_hd_address
derive_hd_address_request(wallet_name, subchain_index, num_addrs) ==
    [wallet_name    |-> wallet_name,
     num_addresses  |-> num_addrs,
     subchain_index |-> 0,
     asked_index    |-> subchain_index]

NoRequest == [wallet_name |-> 0, num_addresses |-> 0, subchain_index |-> 0,
              asked_index |-> 0]

\* mutant: the records of the answer are returned without the resolver
register_unused_addresses_Unverified(k, subchain_index, num_addrs, answer) ==
    [request |-> derive_hd_address_request(
                     get_blockcypher_walletname_from_mpub(serialize_b58(k, FALSE)),
                     subchain_index, num_addrs),
     result  |-> [ok      |-> TRUE,
                  records |-> [i \in 1..Len(answer) |->
                                  FillRecord(answer[i], serialize_b58(k, FALSE))]]]

\* register_unused_addresses: the request it sends and, for the answer the
\* service gave, the records it returns (or the resolver's failure)
register_unused_addresses(k, subchain_index, num_addrs, answer) ==
    [request |-> derive_hd_address_request(
                     get_blockcypher_walletname_from_mpub(serialize_b58(k, FALSE)),
                     subchain_index, num_addrs),
     result  |-> verify_and_fill_address_paths_from_bip32key(
                     answer, serialize_b58(k, FALSE))]

get_unused_receiving_addresses(k, num_addrs, answer) ==
    register_unused_addresses(k, 0, num_addrs, answer)

\* mutant: the change address is taken from the answer without the resolver
get_unused_change_addresses_Unverified(k, num_addrs, answer) ==
    [request |-> register_unused_addresses(k, 1, num_addrs, answer).request,
     result  |-> [ok      |-> TRUE,
                  records |-> [i \in 1..Len(answer) |->
                                  FillRecord(answer[i], serialize_b58(k, FALSE))]]]

get_unused_change_addresses(k, num_addrs, answer) ==
    register_unused_addresses(k, 1, num_addrs, answer)

\* get_addresses_on_both_chains: the resolver runs on every chain of the
\* answer, in order, with the private master key when the wallet has one
RECURSIVE ResolveChains(_, _)
ResolveChains(chains, master_key) ==
    IF chains = <<>> THEN [ok |-> TRUE, records |-> <<>>]
    ELSE LET first == verify_and_fill_address_paths_from_bip32key(
                          chains[1].chain_addresses, master_key)
             rest  == ResolveChains(Tail(chains), master_key)
         IN  IF ~first.ok \/ ~rest.ok THEN ResolverFailure
             ELSE [ok      |-> TRUE,
                   records |-> <<[index           |-> chains[1].index,
                                  chain_addresses |-> first.records]>>
                               \o rest.records]

\* mutant: only the first chain of the answer goes through the resolver
get_addresses_on_both_chains_FirstChainOnly(k, private, answer) ==
    LET master_key == serialize_b58(k, private)
        first == ResolveChains(IF answer = <<>> THEN <<>> ELSE <<Head(answer)>>,
                               master_key)
    IN  IF ~first.ok THEN ResolverFailure
        ELSE [ok      |-> TRUE,
              records |-> [i \in 1..Len(answer) |->
                  [index           |-> answer[i].index,
                   chain_addresses |->
                       [j \in 1..Len(answer[i].chain_addresses) |->
                           FillRecord(answer[i].chain_addresses[j], master_key)]]]]

\* mutant: the resolver is handed the private master key whatever the wallet holds
get_addresses_on_both_chains_AlwaysPrivate(k, private, answer) ==
    ResolveChains(answer, serialize_b58(k, TRUE))

\* mutant: the chains come back in the opposite order
get_addresses_on_both_chains_Reversed(k, private, answer) ==
    LET r == ResolveChains(answer, serialize_b58(k, private))
    IN  [ok      |-> r.ok,
         records |-> [i \in 1..Len(r.records) |->
                         r.records[Len(r.records) + 1 - i]]]

get_addresses_on_both_chains(k, private, answer) ==
    ResolveChains(answer, IF private THEN serialize_b58(k, TRUE)
                                     ELSE serialize_b58(k, FALSE))

\* send_funds: the inputs and outputs asked of create_unsigned_tx
send_request(wallet_name, address, satoshis) ==
    [inputs  |-> <<FromWallet(wallet_name)>>,
     outputs |-> <<Output(address, satoshis)>>]

\* mutant: the proposal is taken as correct without asking the verifier
send_verify_Skipped(tx, request, change) == Accepted

\* mutant: the send is verified as if it were a sweep
send_verify_AsSweep(tx, request, change) ==
    verify_unsigned_tx(tx, request.inputs, request.outputs, TRUE, change)

\* mutant: the destination is handed to the verifier as the change address
send_verify_ChangeToDestination(tx, request, change) ==
    verify_unsigned_tx(tx, request.inputs, request.outputs, FALSE,
                       request.outputs[1].address)

\* send_funds: the call of verify_unsigned_tx
send_verify(tx, request, change) ==
    verify_unsigned_tx(tx, request.inputs, request.outputs, FALSE, change)

\* sweep_funds_from_privkey: the inputs and outputs asked of create_unsigned_tx
sweep_request(pkey_addr, dest_addr) ==
    [inputs  |-> <<FromAddress(pkey_addr)>>,
     outputs |-> <<Output(dest_addr, -1)>>]

\* mutant: the proposal is taken as correct without asking the verifier
sweep_verify_Skipped(tx, request) == Accepted

\* sweep_funds_from_privkey: the call of verify_unsigned_tx
sweep_verify(tx, request) ==
    verify_unsigned_tx(tx, request.inputs, request.outputs, TRUE, 0)

\* mutant: a public wallet is not told apart from a private one
NoPrivateKey_Never(private_key) == FALSE

\* send_funds, sign_tx_offline: "if not wallet_obj.private_key"
NoPrivateKey(private_key) == ~private_key

\* mutant: the flow goes on whatever the verifier said
AbandonOnReject_Never(res) == FALSE

\* mutant: the test of tx_is_correct is inverted
AbandonOnReject_Inverted(res) == res.ok

\* send_funds, sweep_funds_from_privkey: "if not tx_is_correct: ... return"
AbandonOnReject(res) == ~res.ok

\* mutant: the search goes one index beyond starting_pos + depth
send_find_hexkeypairs_Deeper(input_addresses, master_key) ==
    find_hexkeypairs_from_bip32key_bc(input_addresses, master_key,
                                      starting_pos, depth + 1)

\* send_funds: the call of the key finder, with starting_pos=0 and depth=100
send_find_hexkeypairs(input_addresses, master_key) ==
    find_hexkeypairs_from_bip32key_bc(input_addresses, master_key,
                                      starting_pos, depth)

\* send_funds: the key lists, one entry per input address, in input order
send_privkeyhex_list(dict, input_addresses) ==
    [i \in 1..Len(input_addresses) |-> dict[input_addresses[i]].privkeyhex]

\* mutant: the public keys are listed in the reverse order of the inputs
send_pubkeyhex_list_Reversed(dict, input_addresses) ==
    [i \in 1..Len(input_addresses) |->
        dict[input_addresses[Len(input_addresses) + 1 - i]].pubkeyhex]

send_pubkeyhex_list(dict, input_addresses) ==
    [i \in 1..Len(input_addresses) |-> dict[input_addresses[i]].pubkeyhex]

\* mutant: the number of key pairs is not compared with the number of inputs
TraversalFail_Never(dict, input_addresses) == FALSE

\* send_funds: "notfound_addrs = set(input_addresses) - set(hexkeypair_dict.keys())"
NotFound(dict, input_addresses) == SeqToSet(input_addresses) \ DOMAIN dict

\* send_funds: "if len(hexkeypair_dict.keys()) != len(input_addresses): raise"
TraversalFail(dict, input_addresses) ==
    Cardinality(DOMAIN dict) # Len(input_addresses)

----------------------------------------------------------------------------
(* State                                                                   *)

\* BLOCKCYPHER_API_KEY = '' before startup
NoApiKey == 0

\* a key of hex digits given with -b, and one with a character that is no
\* hex digit
UserApiKey == 1
BadApiKey == 2

\* the command lines the sessions are started with: -v -b <key>, and
\* -b <bad key>
Args ==
    {[verbose |-> TRUE,  bc_api_key |-> UserApiKey],
     [verbose |-> FALSE, bc_api_key |-> BadApiKey]}

\* the crude check: set(BLOCKCYPHER_API_KEY) - set('0123456789abcdef') is empty
IsHex(key) == key # BadApiKey

\* is_connected_to_blockcypher: True when get_blockchain_overview answers,
\* False when it raises
is_connected_to_blockcypher(answers) == answers

globals == <<VERBOSE_MODE, USER_ONLINE, BLOCKCYPHER_API_KEY>>
key_given == <<wallet, mkey, has_priv>>
session == <<key_given, globals>>
request_vars == <<final_balance, destination_address, dest_satoshis, wif_key,
                  change_address>>
resolver_vars == <<derive_req, claimed, resolver_key, resolved>>
tx_vars == <<unsigned_tx, verify_res>>
sign_vars == <<hexkeypair_dict, privkeyhex_list, pubkeyhex_list, tx_signatures,
               notfound_addrs, signed_tx, broadcast>>

NoMasterKey == MasterKey(0, FALSE)
NotResolved == [ok |-> FALSE, lists |-> <<>>]
NoVerdict == [ok |-> FALSE, err_msg |-> "not verified"]
NoBroadcast == [unsigned_tx |-> NoTx, signatures |-> <<>>, pubkeys |-> <<>>]

Init ==
    /\ pc = "cli"
    /\ mkey \in MasterKeys
    /\ has_priv \in BOOLEAN
    /\ wallet \in {w \in KeyStrings : w.k = mkey /\ w.private = has_priv}
    /\ VERBOSE_MODE = FALSE
    /\ USER_ONLINE = FALSE
    /\ BLOCKCYPHER_API_KEY = NoApiKey
    /\ flow = "wallet_home"
    /\ final_balance = 0
    /\ destination_address = 0
    /\ dest_satoshis = 0
    /\ wif_key = 0
    /\ change_address = 0
    /\ derive_req = NoRequest
    /\ claimed = <<>>
    /\ resolver_key = NoMasterKey
    /\ resolved = NotResolved
    /\ unsigned_tx = NoTx
    /\ verify_res = NoVerdict
    /\ hexkeypair_dict = <<>>
    /\ privkeyhex_list = <<>>
    /\ pubkeyhex_list = <<>>
    /\ tx_signatures = <<>>
    /\ notfound_addrs = {}
    /\ calls = <<>>
    /\ signed_tx = NoTx
    /\ broadcast = NoBroadcast
    /\ displayed = <<>>
    /\ reported = ""

\* the locals of the previous menu action are gone when the next one starts
FreshLocals ==
    /\ final_balance' = 0
    /\ destination_address' = 0
    /\ dest_satoshis' = 0
    /\ wif_key' = 0
    /\ change_address' = 0
    /\ derive_req' = NoRequest
    /\ claimed' = <<>>
    /\ resolver_key' = NoMasterKey
    /\ resolved' = NotResolved
    /\ unsigned_tx' = NoTx
    /\ verify_res' = NoVerdict
    /\ hexkeypair_dict' = <<>>
    /\ privkeyhex_list' = <<>>
    /\ pubkeyhex_list' = <<>>
    /\ tx_signatures' = <<>>
    /\ notfound_addrs' = {}
    /\ calls' = <<>>
    /\ signed_tx' = NoTx
    /\ broadcast' = NoBroadcast
    /\ displayed' = <<>>

Return(msg) == pc' = "menu" /\ reported' = msg

\* an exception nothing catches: it leaves wallet_home and ends the program
Raise(msg) == pc' = "crashed" /\ reported' = msg

----------------------------------------------------------------------------
(* The home screen and the choosers                                        *)

\* cli from the key string on: network guess, deserialization, the safety
\* check of a public key, and the call of wallet_home
cli ==
    /\ pc = "cli"
    /\ \E args \in Args, connected \in BOOLEAN :
         /\ VERBOSE_MODE' = args.verbose
         /\ BLOCKCYPHER_API_KEY' = args.bc_api_key
         /\ IF ~IsHex(args.bc_api_key)
            THEN /\ pc' = "quit"
                 /\ reported' = "Invalid API Key"
                 /\ USER_ONLINE' = USER_ONLINE
            ELSE /\ USER_ONLINE' = is_connected_to_blockcypher(connected)
                 /\ IF wallet.form = "empty"
                    THEN pc' = "quit" /\ reported' = "new master key generated"
                    ELSE IF guess_network_from_mkey(wallet) = "none"
                    THEN pc' = "quit" /\ reported' = "Invalid wallet entry"
                    ELSE IF Wallet_deserialize(wallet) = "IndexError"
                    THEN \* the except clause prints; wallet_obj is unbound at the call
                         Raise("Invalid entry, UnboundLocalError")
                    ELSE IF Wallet_deserialize(wallet) = "error"
                    THEN Raise("deserialize error")
                    ELSE /\ pc' = "wallet_home"
                         /\ reported' = IF ~wallet.private /\ KeyString(mpub, "b58") # wallet
                                        THEN "Invalid entry"
                                        ELSE ""
    /\ UNCHANGED <<key_given, flow, request_vars, resolver_vars, tx_vars, sign_vars,
                   calls, displayed>>

\* wallet_home before its loop: the wallet is registered with the service and
\* the balance is shown
wallet_home_boot ==
    /\ pc = "wallet_home"
    /\ pc' = "menu"
    /\ calls' = IF USER_ONLINE
                THEN calls \o <<create_hd_wallet_call(mkey),
                                get_wallet_transactions_call(mkey)>>
                ELSE calls
    /\ UNCHANGED <<session, flow, request_vars, resolver_vars, tx_vars, sign_vars,
                   displayed, reported>>

\* mutant: choice 0 leaves the loop instead of opening the dump chooser
wallet_home_target_QuitOnDump(choice) ==
    CASE choice = "q" -> "quit"
      [] choice = "1" -> "display_recent_txs"
      [] choice = "2" -> "display_new_receiving_addresses"
      [] choice = "3" -> "send_chooser"
      [] choice = "0" -> "quit"

wallet_home_target(choice) ==
    CASE choice = "q" -> "quit"
      [] choice = "1" -> "display_recent_txs"
      [] choice = "2" -> "display_new_receiving_addresses"
      [] choice = "3" -> "send_chooser"
      [] choice = "0" -> "dump_private_keys_or_addrs_chooser"

\* one turn of the loop of wallet_home: the choice and what it starts
wallet_home ==
    /\ pc = "menu"
    /\ \E choice \in {"q", "1", "2", "3", "0"} :
          /\ pc' = wallet_home_target(choice)
          /\ flow' = wallet_home_target(choice)
          /\ reported' = IF choice = "q" THEN "Thanks for using bcwallet!" ELSE ""
    /\ FreshLocals
    /\ UNCHANGED session

send_chooser_target(choice) ==
    CASE choice \in {"q", "0"} -> "menu"    \* 0 is accepted and starts nothing
      [] choice = "1" -> "send_funds"
      [] choice = "2" -> "sweep_funds_from_privkey"
      [] choice = "3" -> "generate_offline_tx"
      [] choice = "4" -> "sign_tx_offline"
      [] choice = "5" -> "broadcast_signed_tx"

send_chooser ==
    /\ pc = "send_chooser"
    /\ \E choice \in {"q", "0", "1", "2", "3", "4", "5"} :
          /\ pc' = send_chooser_target(choice)
          /\ flow' = IF choice \in {"q", "0"} THEN flow ELSE send_chooser_target(choice)
    /\ UNCHANGED <<session, request_vars, resolver_vars, tx_vars, sign_vars,
                   calls, displayed, reported>>

generate_offline_tx ==
    /\ pc = "generate_offline_tx"
    /\ IF ~USER_ONLINE THEN Return("BlockCypher connection needed")
                       ELSE Return("Feature Coming Soon")
    /\ UNCHANGED <<session, flow, request_vars, resolver_vars, tx_vars, sign_vars,
                   calls, displayed>>

\* mutant: the double check overwrites the session flag with what it measured
sign_tx_offline_flag_Remeasured(online, connected) == online /\ connected

\* sign_tx_offline reads USER_ONLINE and the answer of
\* is_connected_to_blockcypher and assigns neither: the flag after the double
\* check
sign_tx_offline_flag(online, connected) == online

sign_tx_offline ==
    /\ pc = "sign_tx_offline"
    /\ IF NoPrivateKey(has_priv)
       THEN /\ Return("booted using a master PUBLIC key")
            /\ calls' = calls
            /\ USER_ONLINE' = USER_ONLINE
       ELSE \E connected \in BOOLEAN :
            /\ Return(IF USER_ONLINE /\ is_connected_to_blockcypher(connected)
                      THEN "connected while signing offline, Feature Coming Soon"
                      ELSE "Feature Coming Soon")
            /\ calls' = IF USER_ONLINE THEN calls \o <<get_blockchain_overview_call>>
                                       ELSE calls
            /\ USER_ONLINE' = sign_tx_offline_flag(USER_ONLINE, connected)
    /\ UNCHANGED <<key_given, VERBOSE_MODE, BLOCKCYPHER_API_KEY, flow, request_vars,
                   resolver_vars, tx_vars, sign_vars, displayed>>

broadcast_signed_tx ==
    /\ pc = "broadcast_signed_tx"
    /\ IF ~USER_ONLINE THEN Return("BlockCypher connection needed")
                       ELSE Return("Feature Coming Soon")
    /\ UNCHANGED <<session, flow, request_vars, resolver_vars, tx_vars, sign_vars,
                   calls, displayed>>

display_recent_txs ==
    /\ pc = "display_recent_txs"
    /\ IF ~USER_ONLINE
       THEN Return("BlockCypher connection needed") /\ calls' = calls
       ELSE /\ Return("")
            /\ calls' = calls \o <<get_wallet_transactions_call(mkey),
                                    get_wallet_transactions_call(mkey)>>
    /\ UNCHANGED <<session, flow, request_vars, resolver_vars, tx_vars, sign_vars,
                   displayed>>

----------------------------------------------------------------------------
(* Basic send (send_funds)                                                 *)

\* the integers the prompt get_int(max_int) lets through
get_int(max_int) == 1..max_int

\* mutant: a zero balance does not end the flow
ZeroBalance_Never(balance) == FALSE

\* if wallet_details['final_balance'] == 0: ... return
ZeroBalance(balance) == balance = 0

\* from the entry to the request: online check, public-wallet check,
\* balance, destination and amount
send_funds_begin ==
    /\ pc = "send_funds"
    /\ IF ~USER_ONLINE
       THEN /\ Return("Blockcypher connection needed")
            /\ UNCHANGED <<request_vars, calls>>
       ELSE IF NoPrivateKey(has_priv)
       THEN /\ Return("public wallet notice")
            /\ UNCHANGED <<request_vars, calls>>
       ELSE \E balance \in Balances :
              /\ calls' = calls \o <<get_wallet_transactions_call(mkey)>>
              /\ final_balance' = balance
              /\ IF ZeroBalance(balance)
                 THEN /\ Return("0 balance")
                      /\ destination_address' = destination_address
                 ELSE \E address \in DestAddrs :
                        /\ destination_address' = address
                        /\ pc' = "send_amount"
                        /\ reported' = reported
              /\ UNCHANGED <<dest_satoshis, wif_key, change_address>>
    /\ UNCHANGED <<session, flow, resolver_vars, tx_vars, sign_vars, displayed>>

\* the amount: get_int(max_int=wallet_details['final_balance'])
send_funds_amount ==
    /\ pc = "send_amount"
    /\ \E satoshis \in get_int(final_balance) :
         /\ dest_satoshis' = satoshis
         /\ pc' = "send_change_address"
    /\ UNCHANGED <<session, flow, final_balance, destination_address, wif_key,
                   change_address, resolver_vars, tx_vars, sign_vars, calls,
                   displayed, reported>>

\* change_address = get_unused_change_addresses(...)[0]['pub_address']
send_funds_change_address ==
    /\ pc = "send_change_address"
    /\ \E answer \in DeriveAnswers(mkey, 1) :
         LET r == get_unused_change_addresses(mkey, 1, answer)
         IN  /\ derive_req' = r.request
             /\ claimed' = <<answer>>
             /\ resolver_key' = mpub
             /\ resolved' = [ok    |-> r.result.ok,
                             lists |-> IF r.result.ok THEN <<r.result.records>>
                                                      ELSE <<>>]
             /\ calls' = calls \o <<derive_hd_address_call(r.request),
                                 LocalCall("resolver")>>
             /\ IF ~r.result.ok
                THEN Raise("Client Side Verification Fail") /\ change_address' = 0
                ELSE IF r.result.records = <<>>
                THEN Raise("IndexError") /\ change_address' = 0
                ELSE /\ change_address' = r.result.records[1].pub_address
                     /\ pc' = "send_propose"
                     /\ reported' = reported
    /\ UNCHANGED <<session, flow, final_balance, destination_address, dest_satoshis,
                   wif_key, tx_vars, sign_vars, displayed>>

\* mutant: the 'errors' field of the answer is never looked at
HasErrors_Never(tx) == FALSE

\* if 'errors' in unsigned_tx
HasErrors(tx) == tx.errors

\* create_unsigned_tx, the 'errors' check, verify_unsigned_tx
send_funds_propose ==
    /\ pc = "send_propose"
    /\ \E tx \in Proposals(mkey, destination_address, change_address) :
         /\ unsigned_tx' = tx
         /\ IF HasErrors(tx)
            THEN /\ calls' = calls \o <<create_unsigned_tx_call(
                                            send_request(
                                                get_blockcypher_walletname_from_mpub(mpub),
                                                destination_address, dest_satoshis),
                                            change_address)>>
                 /\ verify_res' = verify_res
                 /\ Return("TX Error(s): Tx NOT Signed or Broadcast")
            ELSE LET res == send_verify(
                                tx,
                                send_request(get_blockcypher_walletname_from_mpub(mpub),
                                             destination_address, dest_satoshis),
                                change_address)
                 IN  /\ calls' = calls \o <<create_unsigned_tx_call(
                                                send_request(
                                                    get_blockcypher_walletname_from_mpub(mpub),
                                                    destination_address, dest_satoshis),
                                                change_address),
                                            LocalCall("verify_unsigned_tx")>>
                     /\ verify_res' = res
                     /\ IF AbandonOnReject(res)
                        THEN Return(res.err_msg)
                        ELSE pc' = "send_sign" /\ reported' = reported
    /\ UNCHANGED <<session, flow, request_vars, resolver_vars, sign_vars, displayed>>

\* key finder, the Traversal Fail check, the key lists, the signer
send_funds_sign ==
    /\ pc = "send_sign"
    /\ LET input_addresses == get_input_addresses(unsigned_tx)
           dict == hexkeypair_list_to_dict(
                       send_find_hexkeypairs(input_addresses, mpriv))
           found == \A i \in 1..Len(input_addresses) : input_addresses[i] \in DOMAIN dict
           privs == send_privkeyhex_list(dict, input_addresses)
           pubs  == send_pubkeyhex_list(dict, input_addresses)
       IN  /\ hexkeypair_dict' = dict
           /\ IF TraversalFail(dict, input_addresses)
              THEN /\ Raise("Traversal Fail")
                   /\ notfound_addrs' = NotFound(dict, input_addresses)
                   /\ calls' = calls \o <<LocalCall("find_hexkeypairs")>>
                   /\ UNCHANGED <<privkeyhex_list, pubkeyhex_list, tx_signatures,
                                  signed_tx>>
              ELSE IF ~found
              THEN /\ Raise("KeyError")
                   /\ calls' = calls \o <<LocalCall("find_hexkeypairs")>>
                   /\ UNCHANGED <<privkeyhex_list, pubkeyhex_list, tx_signatures,
                                  notfound_addrs, signed_tx>>
              ELSE LET sigs == make_tx_signatures(unsigned_tx.tosign, privs, pubs)
                   IN  /\ privkeyhex_list' = privs
                       /\ pubkeyhex_list' = pubs
                       /\ notfound_addrs' = notfound_addrs
                       /\ calls' = calls \o <<LocalCall("find_hexkeypairs"),
                                              LocalCall("make_tx_signatures")>>
                       /\ signed_tx' = unsigned_tx
                       /\ IF sigs = ArityMismatch
                          THEN Raise("ArityMismatch") /\ tx_signatures' = <<>>
                          ELSE /\ tx_signatures' = sigs
                               /\ pc' = "send_confirm"
                               /\ reported' = reported
    /\ UNCHANGED <<session, flow, request_vars, resolver_vars, tx_vars, broadcast,
                   displayed>>

\* the final confirmation prompt: CONF_TEXT with the amount, the destination
\* and the fee of the proposal, and the user's answer
confirm_call(satoshis, address, fees, yes) ==
    Call("confirm", {Arg("amount", satoshis), Arg("destination", address),
                     Arg("fee", fees), Arg("answer", IF yes THEN 1 ELSE 0)})

\* mutant: whatever the user answers, the flow goes on to the broadcast
NotConfirmed_Never(yes) == FALSE

\* if not confirm(...): return
NotConfirmed(yes) == ~yes

\* the final confirmation and the broadcast
send_funds_confirm ==
    /\ pc = "send_confirm"
    /\ \E yes \in BOOLEAN :
         LET asked == confirm_call(dest_satoshis, destination_address,
                                   unsigned_tx.fees, yes)
         IN  IF NotConfirmed(yes)
             THEN /\ calls' = calls \o <<asked>>
                  /\ Return("Transaction Not Broadcast!")
                  /\ broadcast' = broadcast
             ELSE /\ calls' = calls \o <<asked,
                                         broadcast_signed_transaction_call(
                                             unsigned_tx, tx_signatures, pubkeyhex_list),
                                         get_wallet_transactions_call(mkey)>>
                  /\ broadcast' = broadcast_signed_transaction_request(
                                       unsigned_tx, tx_signatures, pubkeyhex_list)
                  /\ Return("Transaction Broadcast")
    /\ UNCHANGED <<session, flow, request_vars, resolver_vars, tx_vars,
                   hexkeypair_dict, privkeyhex_list, pubkeyhex_list, tx_signatures,
                   notfound_addrs, signed_tx, displayed>>

----------------------------------------------------------------------------
(* Sweep from a private key (sweep_funds_from_privkey)                     *)

sweep_begin ==
    /\ pc = "sweep_funds_from_privkey"
    /\ IF ~USER_ONLINE
       THEN Return("BlockCypher connection needed") /\ wif_key' = wif_key
       ELSE \E w \in WifKeys :
              /\ wif_key' = w
              /\ pc' = "sweep_dest_address"
              /\ reported' = reported
    /\ UNCHANGED <<session, flow, final_balance, destination_address, dest_satoshis,
                   change_address, resolver_vars, tx_vars, sign_vars, calls,
                   displayed>>

\* dest_addr = get_unused_receiving_addresses(...)[0]['pub_address']
sweep_dest_address ==
    /\ pc = "sweep_dest_address"
    /\ \E answer \in DeriveAnswers(mkey, 1) :
         LET r == get_unused_receiving_addresses(mkey, 1, answer)
         IN  /\ derive_req' = r.request
             /\ claimed' = <<answer>>
             /\ resolver_key' = mpub
             /\ resolved' = [ok    |-> r.result.ok,
                             lists |-> IF r.result.ok THEN <<r.result.records>>
                                                      ELSE <<>>]
             /\ calls' = calls \o <<derive_hd_address_call(r.request),
                                 LocalCall("resolver")>>
             /\ IF ~r.result.ok
                THEN /\ Raise("Client Side Verification Fail")
                     /\ UNCHANGED <<destination_address, dest_satoshis>>
                ELSE IF r.result.records = <<>>
                THEN /\ Raise("IndexError")
                     /\ UNCHANGED <<destination_address, dest_satoshis>>
                ELSE /\ destination_address' = r.result.records[1].pub_address
                     /\ dest_satoshis' = -1
                     /\ pc' = "sweep_propose"
                     /\ reported' = reported
    /\ UNCHANGED <<session, flow, final_balance, wif_key, change_address, tx_vars,
                   sign_vars, displayed>>

sweep_propose ==
    /\ pc = "sweep_propose"
    /\ \E tx \in Proposals(mkey, destination_address, 0) :
         /\ unsigned_tx' = tx
         /\ IF HasErrors(tx)
            THEN /\ calls' = calls \o <<create_unsigned_tx_call(
                                            sweep_request(WifAddr(wif_key),
                                                          destination_address),
                                            0)>>
                 /\ verify_res' = verify_res
                 /\ Return("TX Error(s): Tx NOT Signed or Broadcast")
            ELSE LET res == sweep_verify(
                                tx, sweep_request(WifAddr(wif_key), destination_address))
                 IN  /\ calls' = calls \o <<create_unsigned_tx_call(
                                                sweep_request(WifAddr(wif_key),
                                                              destination_address),
                                                0),
                                            LocalCall("verify_unsigned_tx")>>
                     /\ verify_res' = res
                     /\ IF AbandonOnReject(res)
                        THEN Return(res.err_msg)
                        ELSE pc' = "sweep_sign" /\ reported' = reported
    /\ UNCHANGED <<session, flow, request_vars, resolver_vars, sign_vars, displayed>>

\* one WIF key pair per input of the proposal, the signer, the broadcast
sweep_sign_broadcast ==
    /\ pc = "sweep_sign"
    /\ LET privs == [i \in 1..Len(unsigned_tx.inputs) |-> PrivKey(0, 0, wif_key)]
           pubs  == [i \in 1..Len(unsigned_tx.inputs) |-> PubKey(0, 0, wif_key)]
           sigs  == make_tx_signatures(unsigned_tx.tosign, privs, pubs)
       IN  /\ privkeyhex_list' = privs
           /\ pubkeyhex_list' = pubs
           /\ signed_tx' = unsigned_tx
           /\ IF sigs = ArityMismatch
              THEN /\ Raise("ArityMismatch")
                   /\ calls' = calls \o <<LocalCall("make_tx_signatures")>>
                   /\ UNCHANGED <<tx_signatures, broadcast>>
              ELSE /\ tx_signatures' = sigs
                   /\ calls' = calls \o <<LocalCall("make_tx_signatures"),
                                          broadcast_signed_transaction_call(
                                              unsigned_tx, sigs, pubs),
                                          get_wallet_transactions_call(mkey)>>
                   /\ broadcast' = broadcast_signed_transaction_request(
                                        unsigned_tx, sigs, pubs)
                   /\ Return("TX Broadcast")
    /\ UNCHANGED <<session, flow, request_vars, resolver_vars, tx_vars,
                   hexkeypair_dict, notfound_addrs, displayed>>

----------------------------------------------------------------------------
(* Listings and dumps                                                      *)

Shown(address, path, wif, header) ==
    [address |-> address, path |-> path, wif |-> wif, header |-> header]

NoHeader == ""

\* dump_selected_keys_or_addrs, one chain: print_key_path_header before the
\* first record (cnt == 0), print_path_info once per record, in order
ShowRecords(records) ==
    [i \in 1..Len(records) |->
        Shown(records[i].pub_address, records[i].path, records[i].wif,
              IF i = 1 THEN "path (address/wif)" ELSE NoHeader)]

RECURSIVE Flatten(_)
Flatten(lists) == IF lists = <<>> THEN <<>> ELSE lists[1] \o Flatten(Tail(lists))

display_new_receiving_addresses ==
    /\ pc = "display_new_receiving_addresses"
    /\ IF ~USER_ONLINE
       THEN /\ Return("BlockCypher connection needed")
            /\ UNCHANGED <<resolver_vars, calls, displayed>>
       ELSE \/ /\ Return("")     \* the user typed q
               /\ UNCHANGED <<resolver_vars, calls, displayed>>
            \/ \E num_addrs \in 1..MaxNumAddrs :
               \E answer \in DeriveAnswers(mkey, num_addrs) :
                 LET r == get_unused_receiving_addresses(mkey, num_addrs, answer)
                 IN  /\ derive_req' = r.request
                     /\ claimed' = <<answer>>
                     /\ resolver_key' = mpub
                     /\ resolved' = [ok    |-> r.result.ok,
                                     lists |-> IF r.result.ok THEN <<r.result.records>>
                                                              ELSE <<>>]
                     /\ calls' = calls \o <<derive_hd_address_call(r.request),
                                 LocalCall("resolver")>>
                     /\ IF ~r.result.ok
                        THEN /\ Raise("Client Side Verification Fail")
                             /\ displayed' = displayed
                        ELSE /\ displayed' =
                                  [i \in 1..Len(r.result.records) |->
                                      Shown(r.result.records[i].pub_address,
                                            r.result.records[i].path, NoKey,
                                            NoHeader)]
                             /\ Return("")
    /\ UNCHANGED <<session, flow, request_vars, tx_vars, sign_vars>>

dump_chooser_target(choice) ==
    CASE choice = "q" -> "menu"
      [] choice = "1" -> "dump_all_keys_or_addrs"
      [] choice \in {"2", "3", "4"} -> "dump_selected_keys_or_addrs"

dump_private_keys_or_addrs_chooser ==
    /\ pc = "dump_private_keys_or_addrs_chooser"
    /\ IF USER_ONLINE
       THEN \E choice \in {"q", "1", "2", "3", "4"} :
              /\ pc' = dump_chooser_target(choice)
              /\ flow' = IF choice = "q" THEN flow ELSE dump_chooser_target(choice)
       ELSE /\ pc' = "dump_all_keys_or_addrs"
            /\ flow' = "dump_all_keys_or_addrs"
    /\ UNCHANGED <<session, request_vars, resolver_vars, tx_vars, sign_vars,
                   calls, displayed, reported>>

\* the line printed before the first entry of a chain (current == 0)
ChainHeader(chain_int) ==
    IF chain_int = 0 THEN "External Chain - m/0/k:" ELSE "Internal Chain - m/1/k"

\* mutant: the loop runs over range(1, num_keys + 1)
LocalChain_OffByOne(k, private, chain, n) ==
    [i \in 1..n |->
        Shown(AddrOf(k, chain, i), <<chain, i>>,
              IF private THEN Wif(k, chain, i) ELSE NoKey,
              IF i = 1 THEN ChainHeader(chain) ELSE NoHeader)]

\* the paths m/chain/0 .. m/chain/(n-1), derived locally, with the header of
\* the chain before the first
LocalChain(k, private, chain, n) ==
    [i \in 1..n |->
        Shown(AddrOf(k, chain, i - 1), <<chain, i - 1>>,
              IF private THEN Wif(k, chain, i - 1) ELSE NoKey,
              IF i - 1 = 0 THEN ChainHeader(chain) ELSE NoHeader)]

dump_all_keys_or_addrs ==
    /\ pc = "dump_all_keys_or_addrs"
    /\ \E num_keys \in 1..MaxNumAddrs :
         LET shown == LocalChain(mkey, has_priv, 0, num_keys)
                          \o LocalChain(mkey, has_priv, 1, num_keys)
         IN  /\ displayed' = displayed \o shown
             /\ calls' = calls \o print_path_info(USER_ONLINE, shown)
    /\ Return("")
    /\ UNCHANGED <<session, flow, request_vars, resolver_vars, tx_vars, sign_vars>>

dump_selected_keys_or_addrs ==
    /\ pc = "dump_selected_keys_or_addrs"
    /\ \E answer \in WalletAddressAnswers(mkey) :
         LET r == get_addresses_on_both_chains(mkey, has_priv, answer)
             lists == [i \in 1..Len(r.records) |-> r.records[i].chain_addresses]
             shown == Flatten([i \in 1..Len(lists) |-> ShowRecords(lists[i])])
         IN  /\ claimed' = [i \in 1..Len(answer) |-> answer[i].chain_addresses]
             /\ resolver_key' = IF has_priv THEN mpriv ELSE mpub
             /\ resolved' = [ok |-> r.ok, lists |-> lists]
             /\ IF ~r.ok
                THEN /\ Raise("Client Side Verification Fail")
                     /\ calls' = calls \o <<get_wallet_addresses_call(mkey),
                                              LocalCall("resolver")>>
                     /\ displayed' = displayed
                     /\ flow' = flow
                ELSE IF shown # <<>> /\ shown[1].wif = NoKey
                THEN \* address_obj['wif'] of a record that has no such field
                     /\ Raise("KeyError")
                     /\ calls' = calls \o <<get_wallet_addresses_call(mkey),
                                              LocalCall("resolver")>>
                     /\ displayed' = displayed
                     /\ flow' = flow
                ELSE /\ displayed' = shown
                     /\ calls' = calls \o <<get_wallet_addresses_call(mkey),
                                              LocalCall("resolver")>>
                                       \o print_path_info(USER_ONLINE, shown)
                     /\ IF shown = <<>>
                        THEN \E yes \in BOOLEAN :
                               /\ pc' = IF yes THEN "dump_all_keys_or_addrs" ELSE "menu"
                               /\ flow' = IF yes THEN "dump_all_keys_or_addrs" ELSE flow
                               /\ reported' = "No matching addresses in this subset"
                        ELSE Return("") /\ flow' = flow
    /\ UNCHANGED <<session, request_vars, derive_req, tx_vars, sign_vars>>

----------------------------------------------------------------------------
(* The program                                                             *)

Next ==
    \/ cli
    \/ wallet_home_boot
    \/ wallet_home
    \/ send_chooser
    \/ generate_offline_tx
    \/ sign_tx_offline
    \/ broadcast_signed_tx
    \/ display_recent_txs
    \/ send_funds_begin
    \/ send_funds_amount
    \/ send_funds_change_address
    \/ send_funds_propose
    \/ send_funds_sign
    \/ send_funds_confirm
    \/ sweep_begin
    \/ sweep_dest_address
    \/ sweep_propose
    \/ sweep_sign_broadcast
    \/ display_new_receiving_addresses
    \/ dump_private_keys_or_addrs_chooser
    \/ dump_all_keys_or_addrs
    \/ dump_selected_keys_or_addrs

Spec == Init /\ [][Next]_vars

\* the key search and the signing of send_funds are straight-line code: once
\* started, they run
FairSpec == Spec /\ WF_vars(send_funds_sign)

----------------------------------------------------------------------------
(* Properties                                                              *)

Called(op) == \E i \in 1..Len(calls) : calls[i].op = op

\* every call of op comes after a call of earlier
After(op, earlier) ==
    \A j \in 1..Len(calls) : calls[j].op = op => \E i \in 1..(j - 1) : calls[i].op = earlier

InSendOrSweep == flow \in {"send_funds", "sweep_funds_from_privkey"}

\* what the verifier answers to a proposal for the request of the running flow
FlowVerdict(tx) ==
    IF flow = "send_funds"
    THEN verify_unsigned_tx(
             tx, <<FromWallet(get_blockcypher_walletname_from_mpub(mpub))>>,
             <<Output(destination_address, dest_satoshis)>>, FALSE, change_address)
    ELSE verify_unsigned_tx(
             tx, <<FromAddress(WifAddr(wif_key))>>,
             <<Output(destination_address, -1)>>, TRUE, 0)

\* some record of the answer the resolver was called on does not have the
\* address the wallet's master key gives its path
SomeMismatch ==
    \E l \in 1..Len(claimed) : \E i \in 1..Len(claimed[l]) :
        claimed[l][i].address # AddrOf(mkey, claimed[l][i].path[1], claimed[l][i].path[2])

\* C1: in send_funds and sweep_funds_from_privkey the signer is called only
\* after verify_unsigned_tx has accepted the same unsigned transaction: the
\* proposal whose tosign list is signed is the one the flow holds, the verdict
\* the flow holds is the verifier's verdict on it, and that verdict accepts.
C1_SignerOnlyAfterAccepted ==
    Called("make_tx_signatures") =>
        /\ InSendOrSweep
        /\ After("make_tx_signatures", "verify_unsigned_tx")
        /\ signed_tx = unsigned_tx
        /\ verify_res = FlowVerdict(signed_tx)
        /\ verify_res.ok

C1_Witness ==
    /\ flow = "send_funds"
    /\ pc = "send_confirm"
    /\ Called("make_tx_signatures")
    /\ tx_signatures # <<>>

\* C2: when the verifier rejects, the flow is abandoned: the reason is
\* reported, control is back at the menu, and after the rejection there is no
\* key lookup, no signature, no confirmation prompt and no broadcast.
C2_RejectedIsAbandoned ==
    (InSendOrSweep /\ Called("verify_unsigned_tx") /\ ~verify_res.ok) =>
        /\ pc = "menu"
        /\ reported = verify_res.err_msg
        /\ calls[Len(calls)].op = "verify_unsigned_tx"
        /\ ~Called("find_hexkeypairs")
        /\ ~Called("make_tx_signatures")
        /\ ~Called("confirm")
        /\ ~Called("broadcast_signed_transaction")
        /\ hexkeypair_dict = <<>>
        /\ privkeyhex_list = <<>>
        /\ tx_signatures = <<>>
        /\ broadcast = NoBroadcast

C2_Witness ==
    /\ flow = "sweep_funds_from_privkey"
    /\ Called("verify_unsigned_tx")
    /\ ~verify_res.ok
    /\ pc = "menu"

\* an input address of the proposal has no key pair in the finder's result
SomeInputUnresolved ==
    \E i \in 1..Len(unsigned_tx.inputs) :
        unsigned_tx.inputs[i].address \notin DOMAIN hexkeypair_dict

\* C3: the pipeline fails closed.  If the answer the change address (send) or
\* the destination address (sweep) comes from has a record the resolver must
\* refuse, if the key finder leaves an input address unresolved, or if the
\* verifier rejects, the flow has stopped, the signer was not called and
\* nothing was broadcast.
C3_FailsClosed ==
    (/\ InSendOrSweep
     /\ \/ Called("resolver") /\ SomeMismatch
        \/ Called("find_hexkeypairs") /\ SomeInputUnresolved
        \/ Called("verify_unsigned_tx") /\ ~verify_res.ok) =>
        /\ pc \in {"menu", "crashed"}
        /\ ~Called("make_tx_signatures")
        /\ ~Called("broadcast_signed_transaction")
        /\ tx_signatures = <<>>
        /\ broadcast = NoBroadcast

C3_Witness ==
    /\ flow = "send_funds"
    /\ Called("find_hexkeypairs")
    /\ SomeInputUnresolved
    /\ pc = "crashed"
    /\ reported = "Traversal Fail"

\* the resolver's comparison, redone on the claimed records
MismatchWith(master_key) ==
    \E l \in 1..Len(claimed) : \E i \in 1..Len(claimed[l]) :
        claimed[l][i].address #
            AddrOf(master_key.k, claimed[l][i].path[1], claimed[l][i].path[2])

\* C4: resolver soundness.  Whenever a menu action has run the resolver (on
\* the wallet's own master key), it failed, ending the program, if and only if
\* some claimed address differs from the address recomputed from the master
\* key and the path; otherwise every claimed record comes back in place with
\* its address and path unchanged, carrying a private key and a WIF exactly
\* when the master key handed to the resolver is private.
C4_ResolverSound ==
    Called("resolver") =>
        /\ resolver_key.k = mkey
        /\ resolver_key.private => has_priv
        /\ resolved.ok <=> ~MismatchWith(resolver_key)
        /\ ~resolved.ok => pc = "crashed" /\ resolved.lists = <<>>
        /\ resolved.ok =>
             /\ Len(resolved.lists) = Len(claimed)
             /\ \A l \in 1..Len(claimed) :
                  /\ Len(resolved.lists[l]) = Len(claimed[l])
                  /\ \A i \in 1..Len(claimed[l]) :
                       /\ resolved.lists[l][i].pub_address = claimed[l][i].address
                       /\ resolved.lists[l][i].path = claimed[l][i].path
                       /\ (resolved.lists[l][i].privkeyhex # NoKey) <=> resolver_key.private
                       /\ (resolved.lists[l][i].wif # NoKey) <=> resolver_key.private

C4_Witness ==
    /\ flow = "dump_selected_keys_or_addrs"
    /\ Called("resolver")
    /\ resolved.ok
    /\ resolver_key.private
    /\ Len(claimed) = 2
    /\ claimed[1] # <<>>
    /\ claimed[2] # <<>>

ClaimedAddresses ==
    UNION {{claimed[l][i].address : i \in 1..Len(claimed[l])} : l \in 1..Len(claimed)}

\* an address the service gave that passed the resolver on the wallet's key
PassedResolver(a) ==
    /\ Called("resolver")
    /\ ~SomeMismatch
    /\ a \in ClaimedAddresses

\* C5: an address that came from the service and is used to move funds (the
\* change address of a send, the destination of a sweep) or shown (new
\* receiving addresses, the selected dump) has passed the resolver on the
\* wallet's own master key; and if a single record of an answer mismatches,
\* nothing of that answer is shown or used: no address is displayed, no
\* balance is looked up and no proposal is requested.
C5_OnlyResolvedAddresses ==
    /\ (flow = "send_funds" /\ change_address # 0) => PassedResolver(change_address)
    /\ (flow = "send_funds" /\ Called("create_unsigned_tx")) => change_address # 0
    /\ (flow = "sweep_funds_from_privkey" /\ destination_address # 0) =>
           PassedResolver(destination_address)
    /\ (flow = "sweep_funds_from_privkey" /\ Called("create_unsigned_tx")) =>
           destination_address # 0
    /\ flow \in {"display_new_receiving_addresses", "dump_selected_keys_or_addrs"} =>
           \A i \in 1..Len(displayed) :
               /\ PassedResolver(displayed[i].address)
               /\ displayed[i].address =
                      AddrOf(mkey, displayed[i].path[1], displayed[i].path[2])
    /\ (Called("resolver") /\ SomeMismatch) =>
           /\ displayed = <<>>
           /\ change_address = 0
           /\ destination_address = 0 \/ flow = "send_funds"
           /\ ~Called("create_unsigned_tx")
           /\ ~Called("get_total_balance")

C5_Witness ==
    /\ flow = "dump_selected_keys_or_addrs"
    /\ Len(displayed) = 2
    /\ pc = "menu"

\* C6: register_unused_addresses asks the service for addresses on the
\* subchain_index its caller passed, so that the change address of a send is
\* registered on the internal chain (index 1).
C6_RegistersOnSubchainAsked ==
    Called("derive_hd_address") =>
        /\ derive_req.subchain_index = derive_req.asked_index
        /\ flow = "send_funds" => derive_req.subchain_index = 1

\* the proposal of a running send, against what was asked
InputTotal == SumValues(unsigned_tx.inputs)
ChangeDue == InputTotal - dest_satoshis - unsigned_tx.fees
AskedOutput == Output(destination_address, dest_satoshis)
ChangeOutput == Output(change_address, ChangeDue)

\* the proposal has a signing-hash list and all its inputs are of the wallet
InputsAsAsked ==
    /\ unsigned_tx.tosign # <<>>
    /\ unsigned_tx.inputs # <<>>
    /\ \A i \in 1..Len(unsigned_tx.inputs) :
           IsWalletAddr(mkey, unsigned_tx.inputs[i].address)

FeeWithinBounds == unsigned_tx.fees >= 0 /\ unsigned_tx.fees < dest_satoshis

SendVerified == flow = "send_funds" /\ Called("verify_unsigned_tx")

\* C7: verifier completeness and sensitivity.  For a send of amount A to D
\* with change address C and a proposal funded by the wallet whose fee is
\* within bounds: outputs exactly [{D: A}, {C: input_total - A - fee}] are
\* accepted; with the destination address changed, the amount changed or an
\* output added the verdict is a rejection naming the outputs, with the
\* change address changed it is a rejection naming the change; and after a
\* rejection no signature exists.
C7_VerifierCompleteAndSensitive ==
    (SendVerified /\ InputsAsAsked /\ FeeWithinBounds /\ ChangeDue > 0) =>
        /\ unsigned_tx.outputs = <<AskedOutput, ChangeOutput>> => verify_res = Accepted
        /\ (\E a \in ForeignAddrs \cup {change_address} :
               /\ a # destination_address
               /\ unsigned_tx.outputs = <<Output(a, dest_satoshis), ChangeOutput>>)
               => verify_res = Rejected("OutputMismatch")
        /\ (\E v \in Values :
               /\ v # dest_satoshis
               /\ unsigned_tx.outputs = <<Output(destination_address, v), ChangeOutput>>)
               => verify_res = Rejected("OutputMismatch")
        /\ (\E a \in ForeignAddrs \cup {destination_address} :
               /\ a # change_address
               /\ unsigned_tx.outputs = <<AskedOutput, Output(a, ChangeDue)>>)
               => verify_res = Rejected("ChangeMismatch")
        /\ (/\ Len(unsigned_tx.outputs) = 3
            /\ SubSeq(unsigned_tx.outputs, 1, 2) = <<AskedOutput, ChangeOutput>>)
               => verify_res = Rejected("OutputMismatch")
        /\ ~verify_res.ok => ~Called("make_tx_signatures") /\ tx_signatures = <<>>

C7_Witness ==
    /\ SendVerified /\ InputsAsAsked /\ FeeWithinBounds /\ ChangeDue > 0
    /\ unsigned_tx.outputs = <<AskedOutput, ChangeOutput>>
    /\ verify_res = Accepted
    /\ pc = "send_sign"

SweepVerified == flow = "sweep_funds_from_privkey" /\ Called("verify_unsigned_tx")

OnlyDestination(tx) ==
    Len(tx.outputs) = 1 /\ tx.outputs[1].address = destination_address

\* C8: in the sweep flow a proposal is accepted only if its outputs are
\* exactly the requested destination address, with no change output; with an
\* extra, a missing or an altered output it is rejected, and then the sweep
\* is neither signed nor broadcast.  What is signed or broadcast pays the
\* destination alone.
C8_SweepOnlyToDestination ==
    /\ SweepVerified =>
         /\ verify_res.ok => OnlyDestination(unsigned_tx)
         /\ ~OnlyDestination(unsigned_tx) =>
              /\ ~verify_res.ok
              /\ verify_res.err_msg \in {"OutputMismatch", "UnexpectedInput",
                                         "MalformedProposal"}
              /\ ~Called("make_tx_signatures")
              /\ ~Called("broadcast_signed_transaction")
    /\ (flow = "sweep_funds_from_privkey" /\ Called("make_tx_signatures")) =>
         OnlyDestination(signed_tx)
    /\ (flow = "sweep_funds_from_privkey" /\ Called("broadcast_signed_transaction")) =>
         OnlyDestination(broadcast.unsigned_tx)

C8_Witness ==
    /\ SweepVerified
    /\ Called("broadcast_signed_transaction")
    /\ OnlyDestination(broadcast.unsigned_tx)

\* the amount a signed proposal moves: the amount asked for in a send, the
\* total of the outputs in a sweep
TransactedAmount ==
    IF flow = "send_funds" THEN dest_satoshis ELSE SumValues(signed_tx.outputs)

\* C9: fee sanity is a hard gate before signing: no proposal whose fee is
\* negative, or is not below the transacted amount (the largest bound a
\* maximum fraction can set), is ever signed.
C9_FeeGateBeforeSigning ==
    Called("make_tx_signatures") =>
        /\ signed_tx.fees >= 0
        /\ signed_tx.fees < TransactedAmount

\* the address a private key spends from
KeyAddr(key) == IF key.k = 0 THEN WifAddr(key.index)
                             ELSE AddrOf(key.k, key.chain, key.index)

\* C10: input check.  Every input of a proposal that reaches the signer is
\* funded by the source asked for: in a send an address of the session's
\* wallet, in a sweep the address of the user's WIF key; and the private key
\* each input is signed with is the key of that input's address.
C10_SignedInputsAreAsked ==
    Called("make_tx_signatures") =>
        /\ Len(privkeyhex_list) = Len(signed_tx.inputs)
        /\ \A i \in 1..Len(signed_tx.inputs) :
             /\ flow = "send_funds" => IsWalletAddr(mkey, signed_tx.inputs[i].address)
             /\ flow = "sweep_funds_from_privkey" =>
                    /\ signed_tx.inputs[i].address = WifAddr(wif_key)
                    /\ privkeyhex_list[i] = PrivKey(0, 0, wif_key)
             /\ KeyAddr(privkeyhex_list[i]) = signed_tx.inputs[i].address

C10_Witness ==
    /\ flow = "sweep_funds_from_privkey"
    /\ Called("make_tx_signatures")
    /\ Len(signed_tx.inputs) = 2
    /\ tx_signatures # <<>>

\* the three lists handed to the signer have one length
SameLength(hashes, privkeys, pubkeys) ==
    Len(hashes) = Len(privkeys) /\ Len(privkeys) = Len(pubkeys)

\* public-key lists the signer could have been handed instead
OtherPubkeyLists ==
    SeqUpTo({PubKey(0, 0, 1), PubKey(mkey, 0, 0)}, Len(privkeyhex_list) + 1)

\* C11: signer arity.  Called with hash, private-key and public-key lists
\* that are not all of one length the signer fails with ArityMismatch, the
\* program ends and no signature exists; called with three lists of length N
\* it returns exactly N signatures, the i-th being the signature of the i-th
\* hash with the i-th private key.  The same holds for any public-key list
\* put in place of the one the flow built.
C11_SignerArity ==
    Called("make_tx_signatures") =>
        /\ IF SameLength(signed_tx.tosign, privkeyhex_list, pubkeyhex_list)
           THEN /\ pc # "crashed"
                /\ Len(tx_signatures) = Len(signed_tx.tosign)
                /\ \A i \in 1..Len(signed_tx.tosign) :
                       tx_signatures[i] =
                           Signature(signed_tx.tosign[i], privkeyhex_list[i])
           ELSE /\ pc = "crashed"
                /\ reported = "ArityMismatch"
                /\ tx_signatures = <<>>
                /\ broadcast = NoBroadcast
        /\ \A pubs \in OtherPubkeyLists :
             LET sigs == make_tx_signatures(signed_tx.tosign, privkeyhex_list, pubs)
             IN  IF SameLength(signed_tx.tosign, privkeyhex_list, pubs)
                 THEN /\ sigs # ArityMismatch
                      /\ Len(sigs) = Len(signed_tx.tosign)
                 ELSE sigs = ArityMismatch

C11_Witness ==
    /\ Called("make_tx_signatures")
    /\ Len(signed_tx.tosign) = 1
    /\ Len(privkeyhex_list) = 2
    /\ pc = "crashed"
    /\ reported = "ArityMismatch"

\* a private key and a public key of one key pair
KeyPair(privkey, pubkey) ==
    /\ privkey.kind = "priv"
    /\ pubkey = [privkey EXCEPT !.kind = "pub"]

\* C12: whenever the signer and then the broadcast are called, the
\* private-key list and the public-key list have one entry per input and are
\* aligned: in a send entry i of both is the key pair the key finder resolved
\* for the i-th input address, in a sweep every entry is the WIF key pair;
\* and the public-key list given to the broadcast is the list given to the
\* signer, with as many entries as there are signatures.
C12_KeyListsAligned ==
    /\ Called("make_tx_signatures") =>
         /\ Len(privkeyhex_list) = Len(signed_tx.inputs)
         /\ Len(pubkeyhex_list) = Len(signed_tx.inputs)
         /\ \A i \in 1..Len(signed_tx.inputs) :
              /\ KeyPair(privkeyhex_list[i], pubkeyhex_list[i])
              /\ flow = "send_funds" =>
                   /\ signed_tx.inputs[i].address \in DOMAIN hexkeypair_dict
                   /\ privkeyhex_list[i] =
                          hexkeypair_dict[signed_tx.inputs[i].address].privkeyhex
                   /\ pubkeyhex_list[i] =
                          hexkeypair_dict[signed_tx.inputs[i].address].pubkeyhex
                   /\ KeyAddr(pubkeyhex_list[i]) = signed_tx.inputs[i].address
              /\ flow = "sweep_funds_from_privkey" =>
                   /\ privkeyhex_list[i] = PrivKey(0, 0, wif_key)
                   /\ pubkeyhex_list[i] = PubKey(0, 0, wif_key)
    /\ Called("broadcast_signed_transaction") =>
         /\ Called("make_tx_signatures")
         /\ broadcast.unsigned_tx = signed_tx
         /\ broadcast.pubkeys = pubkeyhex_list
         /\ broadcast.signatures = tx_signatures
         /\ Len(broadcast.pubkeys) = Len(broadcast.signatures)

C12_Witness ==
    /\ flow = "send_funds"
    /\ Called("broadcast_signed_transaction")
    /\ Len(broadcast.pubkeys) = 2
    /\ broadcast.pubkeys[1] # broadcast.pubkeys[2]

\* private key material: a master private key, a child private key, a WIF
PrivateMaterial(a) == a.kind \in {"mpriv", "priv", "wif"}

\* the operations that go to the remote service
RemoteOps ==
    {"create_hd_wallet", "get_wallet_transactions", "get_wallet_addresses",
     "derive_hd_address", "create_unsigned_tx", "broadcast_signed_transaction",
     "get_total_balance", "get_blockchain_overview"}

\* what may be handed to the service
PublicKinds == {"mpub", "wallet_name", "api_key", "address", "number", "pub",
                "signature", "unsigned_tx"}

\* C13: no private key material leaves the process.  No argument of any call
\* the running flow made (to create_hd_wallet, get_wallet_transactions,
\* get_wallet_addresses, derive_hd_address, create_unsigned_tx,
\* broadcast_signed_transaction, get_total_balance) is the master private
\* key, a child private key or a WIF: only the master public key of the
\* session, the wallet name derived from it, the API key, addresses, numbers,
\* the proposal, public keys and signatures are sent.
C13_NoPrivateKeyLeaves ==
    \A i \in 1..Len(calls) : \A a \in calls[i].args :
        /\ ~PrivateMaterial(a)
        /\ calls[i].op \in RemoteOps =>
             /\ a.kind \in PublicKinds
             /\ a.kind = "mpub" => a.k = mkey
             /\ a.kind = "wallet_name" =>
                    a.k = get_blockcypher_walletname_from_mpub(mpub)

C13_Witness ==
    /\ has_priv
    /\ flow = "send_funds"
    /\ Called("create_unsigned_tx")
    /\ Called("broadcast_signed_transaction")
    /\ \E i \in 1..Len(calls) : \E a \in calls[i].args : a.kind = "signature"

\* C14: a wallet opened with a master public key never signs through basic
\* send.  Once send_funds has started on such a wallet it has returned to the
\* menu, after the public-wallet notice when the session is online, without
\* any call: no balance or proposal was asked of the service, the key finder
\* and the signer did not run, nothing was broadcast.  sign_tx_offline
\* likewise returns after its notice.
C14_PublicWalletNeverSigns ==
    /\ (flow = "send_funds" /\ ~has_priv /\ pc # "send_funds") =>
         /\ pc = "menu"
         /\ reported = IF USER_ONLINE THEN "public wallet notice"
                                      ELSE "Blockcypher connection needed"
         /\ calls = <<>>
         /\ unsigned_tx = NoTx
         /\ change_address = 0
         /\ hexkeypair_dict = <<>>
         /\ privkeyhex_list = <<>>
         /\ tx_signatures = <<>>
         /\ signed_tx = NoTx
         /\ broadcast = NoBroadcast
    /\ (flow = "sign_tx_offline" /\ ~has_priv /\ pc # "sign_tx_offline") =>
         /\ pc = "menu"
         /\ reported = "booted using a master PUBLIC key"
         /\ calls = <<>>
         /\ tx_signatures = <<>>

C14_Witness ==
    /\ flow = "send_funds"
    /\ ~has_priv
    /\ USER_ONLINE
    /\ pc = "menu"
    /\ reported = "public wallet notice"

\* the records the resolver returned, all chains together
ResolvedRecords ==
    UNION {{resolved.lists[l][i] : i \in 1..Len(resolved.lists[l])} :
              l \in 1..Len(resolved.lists)}

\* C15: capability monotonicity.  With a wallet opened on a public-only
\* master key the resolver is never handed a private key, the records it
\* returns carry no private key and no WIF, and nothing any listing or dump
\* shows has a WIF; with a private master key the records
\* get_addresses_on_both_chains returns carry the private key and the WIF of
\* their path.
C15_CapabilityMonotone ==
    /\ ~has_priv =>
         /\ ~resolver_key.private
         /\ \A rec \in ResolvedRecords :
              rec.privkeyhex = NoKey /\ rec.wif = NoKey
         /\ \A i \in 1..Len(displayed) : displayed[i].wif = NoKey
    /\ (has_priv /\ flow = "dump_selected_keys_or_addrs" /\ Called("resolver")) =>
         /\ resolver_key.private
         /\ \A rec \in ResolvedRecords :
              /\ rec.privkeyhex = PrivKey(mkey, rec.path[1], rec.path[2])
              /\ rec.wif = Wif(mkey, rec.path[1], rec.path[2])

C15_Witness ==
    /\ ~has_priv
    /\ flow = "dump_selected_keys_or_addrs"
    /\ Called("resolver")
    /\ resolved.ok
    /\ ResolvedRecords # {}

\* the paths the key finder looks at
PathsSearched(start, d) == (0..1) \X (start..(start + d - 1))

\* an input address of the proposal is derived at one of the paths searched
WithinSearch(a) ==
    \E p \in PathsSearched(starting_pos, depth) : AddrOf(mkey, p[1], p[2]) = a

InputAddressSet == SeqToSet(get_input_addresses(unsigned_tx))

\* C16: key finder boundedness.  With starting position 0 and depth 100 the
\* finder looks at the 2*100 paths m/chain/index, chain in {0,1}, index in
\* [0, 100), and always comes back: the send leaves the key search.  Its
\* result holds exactly the input addresses derived at one of those paths;
\* an address derived nowhere among them is left out of the result, it does
\* not make the finder fail: the only failure after the search is the
\* Traversal Fail that send_funds raises itself.
C16_KeyFinderBounded ==
    /\ [](Cardinality(PathsSearched(starting_pos, depth)) = 2 * depth)
    /\ []((flow = "send_funds" /\ Called("find_hexkeypairs")) =>
            /\ DOMAIN hexkeypair_dict = {a \in InputAddressSet : WithinSearch(a)}
            /\ \A a \in InputAddressSet :
                  ~WithinSearch(a) =>
                      /\ a \notin DOMAIN hexkeypair_dict
                      /\ pc = "crashed"
                      /\ reported = "Traversal Fail")
    /\ (pc = "send_sign" ~> pc \in {"send_confirm", "crashed"})

C16_Witness ==
    /\ flow = "send_funds"
    /\ Called("find_hexkeypairs")
    /\ AddrOf(mkey, 1, starting_pos + depth) \in InputAddressSet
    /\ AddrOf(mkey, 0, 0) \in DOMAIN hexkeypair_dict
    /\ AddrOf(mkey, 1, starting_pos + depth) \notin DOMAIN hexkeypair_dict

\* what the key finder returns for the inputs of the proposal
FinderResult == send_find_hexkeypairs(get_input_addresses(unsigned_tx), mpriv)

\* C17: the key finder's result holds exactly one key pair per resolved
\* address, the pair of that address, and only input addresses; and an
\* unresolved input address is never dropped silently: if some input address
\* has no key pair in the result, send_funds has ended with Traversal Fail
\* naming exactly the input addresses without a key pair, and nothing was
\* signed; whatever is signed has a key for every input.
C17_UnresolvedNeverDropped ==
    (flow = "send_funds" /\ Called("find_hexkeypairs")) =>
        /\ DOMAIN hexkeypair_dict \subseteq InputAddressSet
        /\ \A a \in DOMAIN hexkeypair_dict :
             /\ Cardinality({h \in FinderResult : h.pub_address = a}) = 1
             /\ KeyAddr(hexkeypair_dict[a].privkeyhex) = a
             /\ KeyPair(hexkeypair_dict[a].privkeyhex, hexkeypair_dict[a].pubkeyhex)
        /\ SomeInputUnresolved =>
             /\ pc = "crashed"
             /\ reported = "Traversal Fail"
             /\ notfound_addrs = InputAddressSet \ DOMAIN hexkeypair_dict
             /\ ~Called("make_tx_signatures")
             /\ privkeyhex_list = <<>>
             /\ tx_signatures = <<>>
             /\ broadcast = NoBroadcast
        /\ Called("make_tx_signatures") =>
             /\ ~SomeInputUnresolved
             /\ Len(privkeyhex_list) = Len(unsigned_tx.inputs)

C17_Witness ==
    /\ flow = "send_funds"
    /\ pc = "crashed"
    /\ reported = "Traversal Fail"
    /\ Len(unsigned_tx.inputs) = 2
    /\ notfound_addrs = {AddrOf(mkey, 1, starting_pos + depth)}
    /\ DOMAIN hexkeypair_dict = {AddrOf(mkey, 0, 0)}

\* the key string has no known prefix, does not deserialize, or is a public
\* key that does not re-serialize to itself
Malformed(mkey_string) ==
    \/ guess_network_from_mkey(mkey_string) = "none"
    \/ Wallet_deserialize(mkey_string) # "wallet_obj"
    \/ ~mkey_string.private /\
           KeyString(serialize_b58(mkey_string.k, FALSE), "b58") # mkey_string

\* C18: malformed master key material is fatal at startup: with a key string
\* that has no known network prefix, fails to deserialize, or (a public key)
\* does not re-serialize to the string supplied, the program never gets past
\* cli: wallet_home is not entered with that key.
C18_MalformedKeyIsFatal ==
    (wallet.form # "empty" /\ Malformed(wallet)) => pc \in {"cli", "quit", "crashed"}

\* C19: what is submitted for broadcast is exactly the proposal the verifier
\* accepted.  From the verdict to the broadcast the unsigned transaction is
\* not modified or replaced; the transaction broadcast is the one the flow
\* holds, the one the verifier accepted and the one whose tosign list was
\* signed, and the signatures sent are the signer's for that tosign list.
C19_BroadcastIsAcceptedProposal ==
    /\ [](Called("broadcast_signed_transaction") =>
            /\ broadcast.unsigned_tx = unsigned_tx
            /\ broadcast.unsigned_tx = signed_tx
            /\ verify_res.ok
            /\ verify_res = FlowVerdict(broadcast.unsigned_tx)
            /\ broadcast.signatures = tx_signatures
            /\ broadcast.signatures =
                   make_tx_signatures(broadcast.unsigned_tx.tosign,
                                      privkeyhex_list, pubkeyhex_list))
    /\ [][(pc \in {"send_sign", "send_confirm", "sweep_sign"}) =>
              (unsigned_tx' = unsigned_tx /\ verify_res' = verify_res)]_vars

C19_Witness ==
    /\ flow = "send_funds"
    /\ Called("broadcast_signed_transaction")
    /\ Len(broadcast.unsigned_tx.outputs) = 2
    /\ Len(broadcast.signatures) = 1

\* the outputs of the proposal other than the first one that is the asked one
OtherOutputs == RemoveAt(unsigned_tx.outputs, IndexOf(unsigned_tx.outputs, AskedOutput))

\* C20: value conservation of accepted sends.  For every proposal accepted
\* for a send of amount A to D with change address C, the output values plus
\* the fee add up to the input values; the asked output {D: A} is there, and
\* what is left, input_total - A - fee, is either nothing, with no other
\* output, or is carried by the one other output, which pays C.  A signed
\* proposal with a single input has exactly one signature.
C20_AcceptedSendConservesValue ==
    (SendVerified /\ verify_res.ok) =>
        /\ SumValues(unsigned_tx.outputs) + unsigned_tx.fees = InputTotal
        /\ IndexOf(unsigned_tx.outputs, AskedOutput) # 0
        /\ ChangeDue >= 0
        /\ ChangeDue = 0 => OtherOutputs = <<>>
        /\ ChangeDue > 0 => OtherOutputs = <<ChangeOutput>>
        /\ (tx_signatures # <<>> /\ Len(unsigned_tx.inputs) = 1) =>
               Len(tx_signatures) = 1

C20_Witness ==
    /\ SendVerified
    /\ verify_res.ok
    /\ pc = "send_confirm"
    /\ Len(unsigned_tx.inputs) = 1
    /\ unsigned_tx.fees > 0
    /\ ChangeDue > 0
    /\ Len(unsigned_tx.outputs) = 2
    /\ SumValues(unsigned_tx.outputs) + unsigned_tx.fees = InputTotal
    /\ Len(tx_signatures) = 1

\* chains of a get_wallet_addresses answer that carry the records the
\* resolver was last called on
AnswersAsClaimed ==
    {answer \in WalletAddressAnswers(mkey) :
        [i \in 1..Len(answer) |-> answer[i].chain_addresses] = claimed}

Answered(yes) ==
    \E i \in 1..Len(calls) :
        calls[i] = confirm_call(dest_satoshis, destination_address,
                                unsigned_tx.fees, yes)

\* C22: in a basic send, broadcast_signed_transaction is called only right
\* after the user has said yes to the confirmation prompt, which shows the
\* amount, the destination and the fee of the proposal; the prompt comes
\* after the signer.  When the user says no, the flow returns to the menu
\* with "Transaction Not Broadcast!", nothing is broadcast, and the
\* signatures are gone with the flow's locals at the next step.
C22_BroadcastOnlyAfterYes ==
    /\ [](flow = "send_funds" =>
            /\ \A j \in 1..Len(calls) :
                 calls[j].op = "broadcast_signed_transaction" =>
                     /\ j > 1
                     /\ calls[j - 1] = confirm_call(dest_satoshis, destination_address,
                                                    unsigned_tx.fees, TRUE)
            /\ After("confirm", "make_tx_signatures")
            /\ broadcast # NoBroadcast => Called("broadcast_signed_transaction")
            /\ Called("confirm") => Answered(TRUE) \/ Answered(FALSE)
            /\ Answered(FALSE) =>
                 /\ ~Answered(TRUE)
                 /\ ~Called("broadcast_signed_transaction")
                 /\ broadcast = NoBroadcast
                 /\ pc = "menu"
                 /\ reported = "Transaction Not Broadcast!")
    /\ [][(flow = "send_funds" /\ Answered(FALSE)) =>
             (tx_signatures' = <<>> /\ broadcast' = NoBroadcast)]_vars

\* the user declined a signed send
C22_Witness ==
    /\ flow = "send_funds"
    /\ Answered(FALSE)
    /\ tx_signatures # <<>>
    /\ verify_res.ok
    /\ pc = "menu"

\* the positions of the program that lie behind an online gate
OnlineOnly ==
    {"send_amount", "send_change_address", "send_propose", "send_sign", "send_confirm",
     "sweep_dest_address", "sweep_propose", "sweep_sign",
     "dump_selected_keys_or_addrs"}

\* the menu actions that print a connection notice and return when offline
GatedFlows ==
    {"send_funds", "sweep_funds_from_privkey", "generate_offline_tx",
     "broadcast_signed_tx", "display_recent_txs",
     "display_new_receiving_addresses"}

\* C23: while USER_ONLINE is false nothing calls the remote service.  The
\* gated menu actions return with a connection notice before any request,
\* proposal, resolver run or broadcast; wallet_home does not register the
\* wallet; and a dump is the local one, dump_all_keys_or_addrs, which prints
\* addresses without balance lookups.
C23_OfflineNoRemoteCall ==
    ~USER_ONLINE =>
        /\ \A i \in 1..Len(calls) : calls[i].op \notin RemoteOps
        /\ pc \notin OnlineOnly
        /\ flow # "dump_selected_keys_or_addrs"
        /\ derive_req = NoRequest
        /\ unsigned_tx = NoTx
        /\ resolved = NotResolved
        /\ broadcast = NoBroadcast
        /\ (pc = "menu" /\ flow \in GatedFlows) =>
               reported \in {"BlockCypher connection needed",
                             "Blockcypher connection needed"}
        /\ displayed # <<>> => flow = "dump_all_keys_or_addrs"

\* an offline session has dumped its addresses
C23_Witness ==
    /\ ~USER_ONLINE
    /\ flow = "dump_all_keys_or_addrs"
    /\ pc = "menu"
    /\ Len(displayed) >= 2
    /\ calls = <<>>

\* the answer of the service without its 'errors' field
Body(tx) == [tx EXCEPT !.errors = FALSE]

\* C24: an answer to the proposal request with an 'errors' field ends the
\* flow at once, in send_funds and in sweep_funds_from_privkey, whatever
\* else the answer carries: the verifier is not run, no key is looked up,
\* nothing is signed, nothing is broadcast, and the flow is back at the menu
\* with "TX Error(s): Tx NOT Signed or Broadcast".
C24_ErrorsAbandon ==
    (InSendOrSweep /\ unsigned_tx.errors) =>
        /\ calls[Len(calls)].op = "create_unsigned_tx"
        /\ ~Called("verify_unsigned_tx")
        /\ ~Called("find_hexkeypairs")
        /\ ~Called("make_tx_signatures")
        /\ ~Called("confirm")
        /\ ~Called("broadcast_signed_transaction")
        /\ verify_res = NoVerdict
        /\ hexkeypair_dict = <<>>
        /\ privkeyhex_list = <<>>
        /\ pubkeyhex_list = <<>>
        /\ tx_signatures = <<>>
        /\ signed_tx = NoTx
        /\ broadcast = NoBroadcast
        /\ pc = "menu"
        /\ reported = "TX Error(s): Tx NOT Signed or Broadcast"

\* a send got an answer with an 'errors' field whose body the verifier
\* would have accepted
C24_Witness ==
    /\ flow = "send_funds"
    /\ unsigned_tx.errors
    /\ unsigned_tx.inputs # <<>>
    /\ FlowVerdict(Body(unsigned_tx)).ok
    /\ pc = "menu"

\* the same in a sweep
C24_WitnessSweep ==
    /\ flow = "sweep_funds_from_privkey"
    /\ unsigned_tx.errors
    /\ FlowVerdict(Body(unsigned_tx)).ok
    /\ pc = "menu"

\* C25: in send_funds, Traversal Fail is raised only if some input address of
\* the proposal has no key pair in the finder's result.  Whenever every
\* input address has one, also when one address funds several inputs, the
\* flow goes on to the signer with one key pair per input.
C25_TraversalFailOnlyIfUnresolved ==
    (flow = "send_funds" /\ Called("find_hexkeypairs") /\ ~SomeInputUnresolved) =>
        /\ reported # "Traversal Fail"
        /\ Called("make_tx_signatures")
        /\ Len(privkeyhex_list) = Len(unsigned_tx.inputs)
        /\ Len(pubkeyhex_list) = Len(unsigned_tx.inputs)

\* the same statement for proposals whose input addresses are all different
C25_DistinctInputsProceed ==
    (/\ flow = "send_funds"
     /\ Called("find_hexkeypairs")
     /\ ~SomeInputUnresolved
     /\ Cardinality(InputAddressSet) = Len(unsigned_tx.inputs)) =>
        /\ reported # "Traversal Fail"
        /\ Called("make_tx_signatures")
        /\ Len(privkeyhex_list) = Len(unsigned_tx.inputs)
        /\ Len(pubkeyhex_list) = Len(unsigned_tx.inputs)

\* C26: the session globals are written only at startup.  Until cli runs
\* they have the values of the module (False, False, ''); cli assigns them
\* before wallet_home is entered; and no later step, whatever the menu
\* action, changes VERBOSE_MODE, USER_ONLINE or BLOCKCYPHER_API_KEY, so every
\* gate of the session reads the online status measured at startup.
C26_GlobalsWrittenAtStartup ==
    /\ [](pc = "cli" =>
            /\ VERBOSE_MODE = FALSE
            /\ USER_ONLINE = FALSE
            /\ BLOCKCYPHER_API_KEY = NoApiKey)
    /\ [](pc \notin {"cli", "quit"} => BLOCKCYPHER_API_KEY = UserApiKey)
    /\ [][pc # "cli" =>
             /\ VERBOSE_MODE' = VERBOSE_MODE
             /\ USER_ONLINE' = USER_ONLINE
             /\ BLOCKCYPHER_API_KEY' = BLOCKCYPHER_API_KEY]_vars

\* a session started online with -v and -b went through sign_tx_offline,
\* whose double check found the service gone
C26_Witness ==
    /\ pc = "menu"
    /\ flow = "sign_tx_offline"
    /\ Called("get_blockchain_overview")
    /\ reported = "Feature Coming Soon"
    /\ USER_ONLINE
    /\ VERBOSE_MODE
    /\ BLOCKCYPHER_API_KEY = UserApiKey

\* the positions of the program inside the action a choice of the home
\* screen starts
SendPositions ==
    {"send_chooser", "send_funds", "send_amount", "send_change_address", "send_propose",
     "send_sign", "send_confirm", "sweep_funds_from_privkey", "sweep_dest_address",
     "sweep_propose", "sweep_sign", "generate_offline_tx", "sign_tx_offline",
     "broadcast_signed_tx"}

DumpPositions ==
    {"dump_private_keys_or_addrs_chooser", "dump_all_keys_or_addrs",
     "dump_selected_keys_or_addrs"}

HomeActions ==
    {{"display_recent_txs"}, {"display_new_receiving_addresses"},
     SendPositions, DumpPositions}

\* the action of the home screen the program is in
HomeAction(position) == UNION {a \in HomeActions : position \in a}

InHomeAction == HomeAction(pc) # {}

\* C27: the home screen loops until the user quits.  The loop of wallet_home
\* is left for the end of the program only from the menu, by the choice q;
\* every other choice starts exactly one of: recent transactions, new
\* receiving addresses, the send chooser, the dump chooser; while that action
\* runs the program stays inside it, and it ends either by an exception or
\* by returning to the menu, also after an abandoned or rejected send.  At
\* the menu a next choice is always possible.
C27_HomeLoops ==
    /\ [][pc = "menu" =>
             \/ pc' = "quit" /\ reported' = "Thanks for using bcwallet!"
             \/ /\ pc' \in {"display_recent_txs", "display_new_receiving_addresses",
                             "send_chooser", "dump_private_keys_or_addrs_chooser"}
                /\ flow' = pc'
                /\ calls' = <<>>]_vars
    /\ [][InHomeAction => pc' \in HomeAction(pc) \cup {"menu", "crashed"}]_vars
    /\ [][pc' = "quit" => pc \in {"cli", "menu"}]_vars
    /\ [](InHomeAction => flow \in HomeAction(pc))
    /\ [](pc = "menu" => ENABLED wallet_home)
    /\ []((InSendOrSweep /\ unsigned_tx # NoTx /\
            (unsigned_tx.errors \/ (Called("verify_unsigned_tx") /\ ~verify_res.ok)))
           => pc = "menu")

\* the menu is shown again after a send the verifier rejected
C27_Witness ==
    /\ pc = "menu"
    /\ flow = "send_funds"
    /\ Called("verify_unsigned_tx")
    /\ ~verify_res.ok
    /\ ENABLED wallet_home

\* C28: send_funds asks the service for a proposal only with a non-zero
\* final balance, and the amount it asks for is at least 1 and at most that
\* balance.  With a zero balance the flow is back at the menu with "0
\* balance" after the balance lookup alone: no destination was asked for, no
\* change address was registered, no proposal was requested.
C28_ProposalWithinBalance ==
    flow = "send_funds" =>
        /\ (Called("create_unsigned_tx") \/ Called("derive_hd_address")
               \/ destination_address # 0 \/ dest_satoshis # 0) =>
              /\ final_balance # 0
              /\ calls[1] = get_wallet_transactions_call(mkey)
        /\ dest_satoshis # 0 => (1 <= dest_satoshis /\ dest_satoshis <= final_balance)
        /\ \A i \in 1..Len(calls) :
               calls[i].op = "create_unsigned_tx" =>
                   /\ Arg("number", dest_satoshis) \in calls[i].args
                   /\ \A a \in calls[i].args :
                        a.kind = "number" => a.k <= final_balance
        /\ (Called("get_wallet_transactions") /\ final_balance = 0) =>
              /\ pc = "menu"
              /\ reported = "0 balance"
              /\ calls = <<get_wallet_transactions_call(mkey)>>
              /\ destination_address = 0
              /\ dest_satoshis = 0
              /\ change_address = 0
              /\ derive_req = NoRequest
              /\ unsigned_tx = NoTx

\* a proposal was asked for the whole balance
C28_Witness ==
    /\ flow = "send_funds"
    /\ Called("create_unsigned_tx")
    /\ final_balance = MaxValue
    /\ dest_satoshis = final_balance

\* a send ended on a zero balance
C28_WitnessZero ==
    /\ flow = "send_funds"
    /\ Called("get_wallet_transactions")
    /\ final_balance = 0
    /\ pc = "menu"

\* C29: dump_all_keys_or_addrs.  When the dump is done, what it printed is,
\* for some count n, exactly the 2*n entries m/c/i, c in (0, 1), i in
\* 0..n-1: all of chain 0 in ascending order of i, then all of chain 1; each
\* address is the one derived from the session's master key at that path;
\* the header of a chain is printed once, before the entry m/c/0; and an
\* entry has its WIF exactly when the wallet holds a private key.  No
\* balance is looked up for an address that was not printed.
C29_DumpAllExact ==
    (flow = "dump_all_keys_or_addrs" /\ pc = "menu") =>
        \E n \in 1..MaxNumAddrs :
            /\ Len(displayed) = 2 * n
            /\ \A c \in 0..1 : \A i \in 0..(n - 1) :
                 LET entry == displayed[c * n + i + 1]
                 IN  /\ entry.path = <<c, i>>
                     /\ entry.address = AddrOf(mkey, c, i)
                     /\ entry.wif = IF has_priv THEN Wif(mkey, c, i) ELSE NoKey
                     /\ entry.wif # NoKey <=> has_priv
                     /\ i = 0 => entry.header =
                            (IF c = 0 THEN "External Chain - m/0/k:"
                                      ELSE "Internal Chain - m/1/k")
                     /\ i # 0 => entry.header = ""
            /\ ~Called("derive_hd_address")
            /\ Cardinality({j \in 1..Len(calls) : calls[j].op = "get_total_balance"})
                   = IF USER_ONLINE THEN 2 * n ELSE 0

\* a private-key wallet dumped more than one key per chain
C29_Witness ==
    /\ flow = "dump_all_keys_or_addrs"
    /\ pc = "menu"
    /\ has_priv
    /\ Len(displayed) = 2 * MaxNumAddrs
    /\ MaxNumAddrs > 1
    /\ displayed[MaxNumAddrs + 1].path = <<1, 0>>

\* the same for a public-key wallet: no entry has a WIF
C29_WitnessPublic ==
    /\ flow = "dump_all_keys_or_addrs"
    /\ pc = "menu"
    /\ ~has_priv
    /\ Len(displayed) = 2 * MaxNumAddrs
    /\ \A j \in 1..Len(displayed) : displayed[j].wif = NoKey

====
